---- MODULE Spec2Model ----
(***************************************************************************)
(* Smart Energy Tracker (WattsUp) front end: the tariff calculators, the   *)
(* dashboard loader and forecast panel, the data upload, the chat and its  *)
(* tools, the alert form, the device views and the threshold overview as   *)
(* state machines.                                                         *)
(*                                                                         *)
(* Numbers.  Energy units are held in 1/UnitScale of a unit (kWh), money   *)
(* in paise (1/100 rupee); a product units x rate is kept in full          *)
(* precision as a numerator over UnitScale until toFixed2 rounds it.       *)
(***************************************************************************)
EXTENDS Integers, Sequences, FiniteSets, TLC

\* ---------------------------------------------------------------- bounds
\* resolution of a units value: units are multiples of 1/UnitScale
UnitScale == 4
\* largest units value (whole units) entered in the quantum calculator
MaxUnits == 1100
\* how far below zero (whole units) a units value entered can be
MaxNegUnits == 1
\* loadDashboardData calls started by a connection change
MaxLoads == 2
\* uploads the backend ingests
MaxIngests == 1
\* handlePredictionPeriodChange calls
MaxForecasts == 2
\* handleFile runs of the upload tab
MaxUploads == 2
\* tool calls made by the chat routes
MaxToolCalls == 2
\* seconds the clock runs on after a timer has fired
MaxOverrun == 2
\* fetchDeviceDetails calls of the devices tab
MaxDetailReqs == 3
\* onFileUpload calls of FileUpload
MaxFileCalls == 2
\* requests the chat sends
MaxTurns == 2
\* requests AlertManagement sends
MaxAlertRequests == 6

VARIABLES
    units,          \* QuantumCalculator: the parsed value of the input field
    result,         \* QuantumCalculator: the bill shown, or null
    isCalculating,  \* QuantumCalculator: a calculation is awaiting its delay
    calcPending,    \* QuantumCalculator: unitsValue captured by the running call
    calcCall        \* QuantumCalculator: the latest calculateBill call and its outcome

calcVars == <<units, result, isCalculating, calcPending, calcCall>>

VARIABLES
    connection,     \* SmartEnergyDashboard: connection.isConnected
    energyData,     \* SmartEnergyDashboard: the readings last handed to handleDataUpload
    dashboardData,  \* SmartEnergyDashboard: null or {peak, prediction, suggestions}
    deviceData,     \* SmartEnergyDashboard: the device-aggregate map
    isLoading,      \* SmartEnergyDashboard: a load is running
    loads,          \* loadDashboardData calls awaiting their responses
    loadCount,      \* number of loadDashboardData calls that got past the guard
    backendVer,     \* generation of the backend's reading store
    backendDevices, \* the device aggregates /devices answers with
    activeTab,      \* SmartEnergyDashboard: the tab rendered
    pendingLoadEffect  \* the effect on connection.isConnected awaiting its run:
                       \* null or the isConnected of its render

pageVars == <<connection, energyData, dashboardData, deviceData, isLoading,
              loads, loadCount, backendVer, backendDevices, activeTab,
              pendingLoadEffect>>

VARIABLES
    selectedPredictionPeriod,  \* ProfessionalDashboard: the horizon selected
    forecastData,              \* ProfessionalDashboard: null or the forecast held
    isLoadingForecast,         \* ProfessionalDashboard: loading flag
    forecastReqs,              \* handlePredictionPeriodChange calls awaiting /predict
    forecastCount,             \* number of handlePredictionPeriodChange calls
    pendingPredictionEffect    \* the effect on dashboardData?.prediction awaiting
                               \* its run: null or the values of its render

panelVars == <<selectedPredictionPeriod, forecastData, isLoadingForecast,
               forecastReqs, forecastCount, pendingPredictionEffect>>

VARIABLES
    uploadStatus,   \* DataUpload: uploadStatus.type
    uploads,        \* DataUpload: handleFile runs that are awaiting something
    uploadCount,    \* number of handleFile runs that got past the two checks
    lastSuccess     \* the latest upload that succeeded and the loads started before it

uploadVars == <<uploadStatus, uploads, uploadCount, lastSuccess>>

VARIABLES
    toolCall,       \* ai-tools: the tool call being made, or null
    toolCount       \* number of tool calls made

toolVars == <<toolCall, toolCount>>

VARIABLES
    billUnits,      \* BillCalculator: the parsed value of the input field
    billData,       \* BillCalculator: the bill shown, or null
    billIsLoading,  \* BillCalculator: a request is under way
    billError,      \* BillCalculator: the error shown, "" for none
    billRequest,    \* BillCalculator: the /api/bill request awaited, or null
    billCall        \* BillCalculator: the latest calculateBill call and its outcome

billVars == <<billUnits, billData, billIsLoading, billError, billRequest, billCall>>

VARIABLES
    newSetting,        \* AlertManagement: the form of a new alert setting
    recipientEmail,    \* AlertManagement: newRecipient.email
    testEmail,         \* AlertManagement: the address of the test form
    alertSettings,     \* AlertManagement: ids of the settings listed
    emailRecipients,   \* AlertManagement: ids of the recipients listed
    availableDevices,  \* AlertManagement: the items of the device Select
    connectionTesting, \* AlertManagement: connectionStatus.testing
    alertLoading,      \* AlertManagement: loading
    alertRequests,     \* the requests of AlertManagement awaiting their responses
    alertCount,        \* number of requests AlertManagement has sent
    alertToast,        \* the latest toast, or null (the toasts outlive the tab)
    pendingAlertEffect \* the effect on connection.isConnected awaiting its run:
                       \* null or the isConnected of its render

alertVars == <<newSetting, recipientEmail, testEmail, alertSettings,
               emailRecipients, availableDevices, connectionTesting, alertLoading,
               alertRequests, alertCount, alertToast,
               pendingAlertEffect>>

VARIABLES
    thresholdRow    \* DeviceThresholdOverview: the threshold row rendered last

thresholdVars == <<thresholdRow>>

VARIABLES
    selectedDevice,         \* DeviceMonitoring: the device card selected, or NoDevice
    selectedDeviceDetails,  \* DeviceMonitoring: null or the details held
    isLoadingDetails,       \* DeviceMonitoring: loading flag
    detailReqs,             \* fetchDeviceDetails calls awaiting /api/device/<name>
    detailCount,            \* number of fetchDeviceDetails calls
    pendingDetailsEffect    \* the effect on selectedDevice and isConnected awaiting
                            \* its run: null or the values of its render

monitorVars == <<selectedDevice, selectedDeviceDetails, isLoadingDetails,
                 detailReqs, detailCount, pendingDetailsEffect>>

VARIABLES
    isDragOver,       \* FileUpload: a file is dragged over the drop zone
    fileDialogOpen,   \* FileUpload: the file dialog of the hidden input is open
    fileUploadCall,   \* FileUpload: the latest onFileUpload call
    fileUploadCount   \* number of onFileUpload calls

fileVars == <<isDragOver, fileDialogOpen, fileUploadCall, fileUploadCount>>

VARIABLES
    messages,     \* AIAssistant: the message list
    chatInput,    \* AIAssistant: input, the text of the input field
    isTyping,     \* AIAssistant: a reply is awaited
    chatRequest,  \* the POST to /api/chat-enhanced awaiting its response
    chatCall,     \* AIAssistant: the latest sendMessage call and what it did
    chatCount     \* number of requests sent

chatVars == <<messages, chatInput, isTyping, chatRequest, chatCall, chatCount>>

vars == <<calcVars, pageVars, panelVars, uploadVars, toolVars, billVars, alertVars,
          thresholdVars, monitorVars, fileVars, chatVars>>

Null == [kind |-> "null"]

\* selectedDevice of DeviceMonitoring when no card is selected (null)
NoDevice == "none"

\* ------------------------------------------------------- tariff engine
\* Number.POSITIVE_INFINITY, the upper bound of the last slab
Infinity == -1

\* a slab table whose second slab starts at the first slab's upper bound
slabs_overlapping ==
    << [from |-> 0,    to |-> 100,      rate |-> 0],
       [from |-> 100,  to |-> 200,      rate |-> 225],
       [from |-> 201,  to |-> 500,      rate |-> 450],
       [from |-> 501,  to |-> 1000,     rate |-> 600],
       [from |-> 1001, to |-> Infinity, rate |-> 800] >>

\* the slab table of calculateBill; rate in paise per unit
slabs ==
    << [from |-> 0,    to |-> 100,      rate |-> 0],
       [from |-> 101,  to |-> 200,      rate |-> 225],
       [from |-> 201,  to |-> 500,      rate |-> 450],
       [from |-> 501,  to |-> 1000,     rate |-> 600],
       [from |-> 1001, to |-> Infinity, rate |-> 800] >>

\* toFixed2 cutting the digits off instead of rounding
toFixed2_truncating(num, den) == num \div den

\* Number.prototype.toFixed(2) of a value of num / den hundredths (num >= 0):
\* the nearest hundredth, the larger one on a tie
toFixed2(num, den) == (2 * num + den) \div (2 * den)

\* slab.to - slab.from + 1, in 1/scale units (Infinity stays Infinity)
slabWidth(slab, scale) ==
    IF slab.to = Infinity THEN Infinity ELSE (slab.to - slab.from + 1) * scale

\* Math.min(remainingUnits, slab.to - slab.from + 1)
slabUnitsOf(remainingUnits, slab, scale) ==
    IF slabWidth(slab, scale) = Infinity \/ remainingUnits <= slabWidth(slab, scale)
    THEN remainingUnits
    ELSE slabWidth(slab, scale)

\* one breakdown row; amount is amount.toFixed(2), to is "Above" for the last slab
breakdownRow(slab, slabUnits, scale) ==
    [from   |-> slab.from,
     to     |-> IF slab.to = Infinity THEN "Above" ELSE slab.to,
     units  |-> slabUnits,
     rate   |-> slab.rate,
     amount |-> toFixed2(slabUnits * slab.rate, scale)]

\* the slab loop with totalAmount = amount in place of totalAmount += amount
RECURSIVE slabLoop_assigning(_, _, _, _, _)
slabLoop_assigning(i, totalAmount, remainingUnits, breakdown, scale) ==
    IF i > Len(slabs) \/ remainingUnits <= 0
    THEN [totalAmount |-> totalAmount, remainingUnits |-> remainingUnits,
          breakdown |-> breakdown]
    ELSE LET slab == slabs[i]
             slabUnits == slabUnitsOf(remainingUnits, slab, scale)
         IN  slabLoop_assigning(i + 1,
                      slabUnits * slab.rate,
                      remainingUnits - slabUnits,
                      Append(breakdown, breakdownRow(slab, slabUnits, scale)),
                      scale)

\* the slab loop of calculateBill from slab i on: totalAmount, remainingUnits
\* and breakdown after the loop
RECURSIVE slabLoop(_, _, _, _, _)
slabLoop(i, totalAmount, remainingUnits, breakdown, scale) ==
    IF i > Len(slabs) \/ remainingUnits <= 0
    THEN [totalAmount |-> totalAmount, remainingUnits |-> remainingUnits,
          breakdown |-> breakdown]
    ELSE LET slab == slabs[i]
             slabUnits == slabUnitsOf(remainingUnits, slab, scale)
         IN  slabLoop(i + 1,
                      totalAmount + slabUnits * slab.rate,
                      remainingUnits - slabUnits,
                      Append(breakdown, breakdownRow(slab, slabUnits, scale)),
                      scale)

\* the result object calculateBill stores for unitsValue (in 1/scale units)
computeBill(unitsValue, scale) ==
    LET r == slabLoop(1, 0, unitsValue, << >>, scale)
    IN  [kind |-> "bill",
         units |-> unitsValue,
         total_amount |-> toFixed2(r.totalAmount, scale),
         breakup |-> r.breakdown]

\* ------------------------------------------------- QuantumCalculator
\* values the input field can hold: empty (parseFloat gives NaN) or a number
UnitsInputs ==
    {[kind |-> "empty"]} \cup
    {[kind |-> "num", q |-> q] : q \in (0 - MaxNegUnits * UnitScale)..(MaxUnits * UnitScale)}

InitCalc ==
    /\ result = Null
    /\ isCalculating = FALSE
    /\ calcPending = Null
    /\ calcCall = Null

\* calculateBill up to its await: the button is disabled for an empty field
\* and while calculating; NaN and unitsValue <= 0 return at once
calculateBill ==
    /\ units.kind = "num"
    /\ ~isCalculating
    /\ IF units.q <= 0
       THEN /\ calcCall' = [unitsValue |-> units.q, outcome |-> "returned"]
            /\ UNCHANGED <<result, isCalculating, calcPending>>
       ELSE /\ isCalculating' = TRUE
            /\ calcPending' = [kind |-> "call", unitsValue |-> units.q]
            /\ calcCall' = [unitsValue |-> units.q, outcome |-> "pending"]
            /\ UNCHANGED result
    /\ UNCHANGED units
    /\ UNCHANGED <<pageVars, panelVars, uploadVars, toolVars, billVars, alertVars,
                   thresholdVars, monitorVars, fileVars, chatVars>>

\* calculateBill after the simulated delay: the slab loop, setResult,
\* setIsCalculating(false)
calculateBillResume ==
    /\ calcPending.kind = "call"
    /\ result' = computeBill(calcPending.unitsValue, UnitScale)
    /\ isCalculating' = FALSE
    /\ calcPending' = Null
    /\ calcCall' = [calcCall EXCEPT !.outcome = "result"]
    /\ UNCHANGED units
    /\ UNCHANGED <<pageVars, panelVars, uploadVars, toolVars, billVars, alertVars,
                   thresholdVars, monitorVars, fileVars, chatVars>>

\* values typed into the field after the first calculation was set up
RetypedUnits ==
    {[kind |-> "empty"]} \cup
    {[kind |-> "num", q |-> q] : q \in {0 - UnitScale, 0, 150 * UnitScale}}

\* onChange of the units field
setUnits ==
    /\ \E v \in RetypedUnits :
          /\ v # units
          /\ units' = v
    /\ UNCHANGED <<result, isCalculating, calcPending, calcCall>>
    /\ UNCHANGED <<pageVars, panelVars, uploadVars, toolVars, billVars, alertVars,
                   thresholdVars, monitorVars, fileVars, chatVars>>

\* ---------------------------------------------------- BillCalculator
\* the limit of the "Units seem too high" check
MaxBillUnits == 10000

\* values the units field of BillCalculator can hold
BillUnitsInputs ==
    {[kind |-> "empty"]} \cup
    {[kind |-> "num", q |-> q] :
        q \in {0 - UnitScale, 0, 1, 150 * UnitScale,
               MaxBillUnits * UnitScale, MaxBillUnits * UnitScale + 1}}

InitBill ==
    /\ billUnits = [kind |-> "empty"]
    /\ billData = Null
    /\ billIsLoading = FALSE
    /\ billError = ""
    /\ billRequest = Null
    /\ billCall = Null

\* isNaN(unitsValue) || unitsValue <= 0
billUnitsInvalid(u) == u.kind = "empty" \/ u.q <= 0

\* the bill /api/bill answers for unitsValue
backendBill(unitsValue) == [kind |-> "bill", units |-> unitsValue]

\* onChange of the units field; the field is disabled when the backend is
\* not connected and while loading
setBillUnits ==
    /\ activeTab = "calculator"
    /\ connection /\ ~billIsLoading
    /\ \E v \in BillUnitsInputs :
          /\ v # billUnits
          /\ billUnits' = v
    /\ UNCHANGED <<billData, billIsLoading, billError, billRequest, billCall>>
    /\ UNCHANGED <<calcVars, pageVars, panelVars, uploadVars, toolVars, alertVars,
                   thresholdVars, monitorVars, fileVars, chatVars>>

\* calculateBill of BillCalculator up to its await, from the button or the
\* Enter key of the enabled field: the two checks, then the request
BillCalculator_calculateBill ==
    /\ activeTab = "calculator"
    /\ connection /\ ~billIsLoading
    /\ IF billUnitsInvalid(billUnits)
       THEN /\ billError' = "Please enter a valid number of units"
            /\ billCall' = [unitsValue |-> billUnits, outcome |-> "error"]
            /\ UNCHANGED <<billData, billIsLoading, billRequest>>
       ELSE IF billUnits.q > MaxBillUnits * UnitScale
       THEN /\ billError' = "Units seem too high"
            /\ billCall' = [unitsValue |-> billUnits, outcome |-> "error"]
            /\ UNCHANGED <<billData, billIsLoading, billRequest>>
       ELSE /\ billIsLoading' = TRUE
            /\ billError' = ""
            /\ billData' = Null
            /\ billRequest' = [kind |-> "request", unitsValue |-> billUnits.q]
            /\ billCall' = [unitsValue |-> billUnits, outcome |-> "pending"]
    /\ UNCHANGED billUnits
    /\ UNCHANGED <<calcVars, pageVars, panelVars, uploadVars, toolVars, alertVars,
                   thresholdVars, monitorVars, fileVars, chatVars>>

\* an OK response: data.error is shown as the error, any other body is the
\* bill; finally clears isLoading
billReplied ==
    /\ billRequest # Null
    /\ \E hasError \in BOOLEAN :
          IF hasError
          THEN /\ billError' = "backend error"
               /\ billCall' = [billCall EXCEPT !.outcome = "failed"]
               /\ UNCHANGED billData
          ELSE /\ billData' = backendBill(billRequest.unitsValue)
               /\ billCall' = [billCall EXCEPT !.outcome = "result"]
               /\ UNCHANGED billError
    /\ billIsLoading' = FALSE
    /\ billRequest' = Null
    /\ UNCHANGED billUnits
    /\ UNCHANGED <<calcVars, pageVars, panelVars, uploadVars, toolVars, alertVars,
                   thresholdVars, monitorVars, fileVars, chatVars>>

\* a response that is not OK, or fetch or json() throwing: the catch
billFailed ==
    /\ billRequest # Null
    /\ billError' = "Error calculating bill"
    /\ billCall' = [billCall EXCEPT !.outcome = "failed"]
    /\ billIsLoading' = FALSE
    /\ billRequest' = Null
    /\ UNCHANGED <<billUnits, billData>>
    /\ UNCHANGED <<calcVars, pageVars, panelVars, uploadVars, toolVars, alertVars,
                   thresholdVars, monitorVars, fileVars, chatVars>>

\* ---------------------------------------------- SmartEnergyDashboard
Empty == [kind |-> "empty"]

\* the requests of one load, in the order of the Promise.all
Endpoints == {"peak", "predict", "suggestions", "devices"}

\* the horizon of /predict without a days parameter
DefaultDays == 30

\* predicted_kwh values (in 1/100 kWh) the backend's 30-day prediction takes;
\* chosen so that no product of the fallback calculation is a decimal tie
BaseKwh == {15700, 62000}

\* scale of a predicted_kwh value: 1/100 kWh
KwhScale == 100

\* where a value of the page came from: the load that fetched it and the
\* generation of the backend's store that answered the request
Tag(l, generation) == [load |-> l.id, ver |-> generation]

\* the response of /predict: the backend's forecast for days at the daily
\* rate kwh30 / 30, its bill being the tariff of the predicted units;
\* daily averages are included or not, as JSON numbers
backendForecast(kwh30, days, withDaily) ==
    LET kwh   == toFixed2(kwh30 * days, DefaultDays)
        total == computeBill(kwh, KwhScale).total_amount
    IN  [kind |-> "forecast",
         predicted_kwh |-> kwh,
         total_amount |-> total,
         hasDaily |-> withDaily,
         dailyAsText |-> FALSE,
         daily_avg_kwh |-> IF withDaily THEN toFixed2(kwh, days) ELSE 0,
         daily_avg_cost |-> IF withDaily THEN toFixed2(total, days) ELSE 0,
         days |-> days,
         confidence |-> "model"]

\* the tabs of the sidebar; the content is keyed by activeTab, so each tab
\* change unmounts the component shown and mounts the next one
Tabs == {"dashboard", "devices", "analytics", "upload", "calculator", "alerts"}

\* the device aggregates of the sample store
SampleDevices ==
    [d \in {"AC", "Fridge"} |->
        [isActive |-> TRUE, currentPower |-> 5, efficiencyStatus |-> "proper"]]

InitPage ==
    /\ connection = FALSE
    /\ energyData = Empty
    /\ dashboardData = Null
    /\ deviceData = Empty
    /\ isLoading = TRUE
    /\ loads = {}
    /\ loadCount = 0
    /\ backendVer = 0
    /\ pendingLoadEffect = Null

\* the page once its first health check has succeeded and the effect on
\* connection.isConnected has started the first load
InitPageConnected ==
    /\ connection = TRUE
    /\ energyData = Empty
    /\ dashboardData = Null
    /\ deviceData = Empty
    /\ isLoading = TRUE
    /\ loads = {[id |-> 1, since |-> 0]}
    /\ loadCount = 1
    /\ backendVer = 0
    /\ pendingLoadEffect = Null

InitPanel ==
    /\ selectedPredictionPeriod = 30
    /\ forecastData = Null
    /\ isLoadingForecast = FALSE
    /\ forecastReqs = {}
    /\ forecastCount = 0
    /\ pendingPredictionEffect = Null

\* no passive effect is awaiting its run: React runs the effects of a commit
\* before it renders again
NoPendingEffects ==
    /\ pendingLoadEffect = Null
    /\ pendingPredictionEffect = Null
    /\ pendingDetailsEffect = Null
    /\ pendingAlertEffect = Null

\* loadDashboardData up to its first await, called n times in a row by a
\* caller whose closure saw isConnected
loadDashboardData(isConnected, n) ==
    IF isConnected
    THEN /\ isLoading' = TRUE
         /\ loads' = loads \cup
                {[id |-> loadCount + i, since |-> backendVer] : i \in 1..n}
         /\ loadCount' = loadCount + n
    ELSE UNCHANGED <<isLoading, loads, loadCount>>

\* the requests the effects of a render with isConnected = ok will send
\* have room in the model
EffectsHaveRoom(ok) ==
    /\ ok => loadCount < MaxLoads
    /\ (ok /\ activeTab = "devices" /\ selectedDevice # NoDevice) =>
          detailCount < MaxDetailReqs
    /\ (ok /\ activeTab = "alerts") => alertCount + 4 <= MaxAlertRequests

\* checkBackendConnection after its awaits (mount, the 30 s interval, retry):
\* setConnection with the backend found up or down; the commit schedules
\* the effects on connection.isConnected of the page and of the tab shown
checkBackendConnection ==
    /\ NoPendingEffects
    /\ \E ok \in BOOLEAN :
          /\ ok # connection
          /\ EffectsHaveRoom(ok)
          /\ connection' = ok
          /\ pendingLoadEffect' = [isConnected |-> ok]
          /\ pendingDetailsEffect' =
                IF activeTab = "devices"
                THEN [selectedDevice |-> selectedDevice, isConnected |-> ok]
                ELSE Null
          /\ pendingAlertEffect' =
                IF activeTab = "alerts" THEN [isConnected |-> ok] ELSE Null
    /\ UNCHANGED <<energyData, dashboardData, deviceData, isLoading, loads,
                   loadCount, backendVer, backendDevices, activeTab>>
    /\ UNCHANGED <<selectedDevice, selectedDeviceDetails, isLoadingDetails,
                   detailReqs, detailCount>>
    /\ UNCHANGED <<newSetting, recipientEmail, testEmail, alertSettings,
                   emailRecipients, availableDevices, connectionTesting,
                   alertLoading, alertRequests, alertCount, alertToast>>
    /\ UNCHANGED <<calcVars, panelVars, uploadVars, toolVars, billVars,
                   thresholdVars, fileVars, chatVars>>

\* the effect of the page on connection.isConnected, run after the effects
\* of the tab shown: if (connection.isConnected) loadDashboardData()
connectionEffect ==
    /\ pendingLoadEffect # Null
    /\ pendingDetailsEffect = Null /\ pendingAlertEffect = Null
    /\ IF pendingLoadEffect.isConnected
       THEN loadDashboardData(pendingLoadEffect.isConnected, 1)
       ELSE UNCHANGED <<isLoading, loads, loadCount>>
    /\ pendingLoadEffect' = Null
    /\ UNCHANGED <<connection, energyData, dashboardData, deviceData, backendVer,
                   backendDevices, activeTab>>
    /\ UNCHANGED <<calcVars, panelVars, uploadVars, toolVars, billVars, alertVars,
                   thresholdVars, monitorVars, fileVars, chatVars>>

\* the backend replaces its reading store: it accepted an upload of another
\* client (the uploads of this page are uploadReplied)
backendIngest ==
    /\ backendVer < MaxIngests
    /\ backendVer' = backendVer + 1
    /\ UNCHANGED <<connection, energyData, dashboardData, deviceData, isLoading,
                   loads, loadCount, backendDevices, activeTab, pendingLoadEffect>>
    /\ UNCHANGED <<calcVars, panelVars, uploadVars, toolVars, billVars, alertVars,
                   thresholdVars, monitorVars, fileVars, chatVars>>

\* ---------------------------------------------------------- DataUpload
\* what a dropped or selected file holds: text that does not parse, JSON that
\* is no array, an array of well-formed readings, or an array with a reading
\* that has a negative or NaN number, a bad timestamp or an empty device name
FileContents == {"unparseable", "notArray", "readings", "malformedReadings"}

Files == [json : BOOLEAN, content : FileContents]

\* the outcomes of the POST to /api/upload: response.ok and
\* result.status === "success", or neither of fetch and json() resolving
UploadReplies == [ok : BOOLEAN, success : BOOLEAN]

InitUpload ==
    /\ uploadStatus = "null"
    /\ uploads = {}
    /\ uploadCount = 0
    /\ lastSuccess = Null

\* setUploadStatus of a handleFile run: it changes nothing once the
\* DataUpload the run belongs to is unmounted
setUploadStatus(u, type) ==
    uploadStatus' = IF u.mounted THEN type ELSE uploadStatus

\* handleFile up to its first await (from handleDrop or handleFileSelect):
\* the extension check, the connection check, "Reading file..."
handleFile ==
    /\ activeTab = "upload"
    /\ \E file \in Files :
          IF ~file.json \/ ~connection
          THEN /\ uploadStatus' = "error"
               /\ UNCHANGED <<uploads, uploadCount>>
          ELSE /\ uploadCount < MaxUploads
               /\ uploadStatus' = "loading"
               /\ uploads' = uploads \cup
                      {[id |-> uploadCount + 1, content |-> file.content,
                        pc |-> "reading", reply |-> Null, mounted |-> TRUE]}
               /\ uploadCount' = uploadCount + 1
    /\ UNCHANGED lastSuccess
    /\ UNCHANGED <<calcVars, pageVars, panelVars, toolVars, billVars, alertVars,
                   thresholdVars, monitorVars, fileVars, chatVars>>

\* file.text() and JSON.parse: a parse error or a non-array goes to the
\* catch, an array goes on to "Validating data..." and the 1 s delay
fileParsed ==
    /\ \E u \in uploads :
          /\ u.pc = "reading"
          /\ IF u.content \in {"unparseable", "notArray"}
             THEN /\ setUploadStatus(u, "error")
                  /\ uploads' = uploads \ {u}
             ELSE /\ setUploadStatus(u, "loading")
                  /\ uploads' = (uploads \ {u}) \cup {[u EXCEPT !.pc = "validating"]}
    /\ UNCHANGED <<uploadCount, lastSuccess>>
    /\ UNCHANGED <<calcVars, pageVars, panelVars, toolVars, billVars, alertVars,
                   thresholdVars, monitorVars, fileVars, chatVars>>

\* after the delay: "Uploading to server..." and the POST of the data
postUpload ==
    /\ \E u \in uploads :
          /\ u.pc = "validating"
          /\ setUploadStatus(u, "loading")
          /\ uploads' = (uploads \ {u}) \cup {[u EXCEPT !.pc = "posting"]}
    /\ UNCHANGED <<uploadCount, lastSuccess>>
    /\ UNCHANGED <<calcVars, pageVars, panelVars, toolVars, billVars, alertVars,
                   thresholdVars, monitorVars, fileVars, chatVars>>

\* the response and its JSON arrive: "Processing data..." and the second
\* delay; a reply of success means the backend has replaced its store
uploadReplied ==
    /\ \E u \in uploads, reply \in UploadReplies :
          /\ u.pc = "posting"
          /\ (reply.ok /\ reply.success) => backendVer < MaxIngests
          /\ backendVer' = IF reply.ok /\ reply.success THEN backendVer + 1
                           ELSE backendVer
          /\ setUploadStatus(u, "loading")
          /\ uploads' = (uploads \ {u}) \cup
                 {[u EXCEPT !.pc = "processing", !.reply = reply]}
    /\ UNCHANGED <<uploadCount, lastSuccess>>
    /\ UNCHANGED <<connection, energyData, dashboardData, deviceData, isLoading,
                   loads, loadCount, backendDevices, activeTab, pendingLoadEffect>>
    /\ UNCHANGED <<calcVars, panelVars, toolVars, billVars, alertVars,
                   thresholdVars, monitorVars, fileVars, chatVars>>

\* a handleFile without the catch: the run ends, the status stays
uploadThrew_noCatch ==
    /\ \E u \in uploads :
          /\ u.pc = "posting"
          /\ uploads' = uploads \ {u}
    /\ UNCHANGED <<uploadStatus, uploadCount, lastSuccess>>
    /\ UNCHANGED <<calcVars, pageVars, panelVars, toolVars, billVars, alertVars,
                   thresholdVars, monitorVars, fileVars, chatVars>>

\* fetch or response.json() rejected: the catch
uploadThrew ==
    /\ \E u \in uploads :
          /\ u.pc = "posting"
          /\ uploads' = uploads \ {u}
          /\ setUploadStatus(u, "error")
    /\ UNCHANGED <<uploadCount, lastSuccess>>
    /\ UNCHANGED <<calcVars, pageVars, panelVars, toolVars, billVars, alertVars,
                   thresholdVars, monitorVars, fileVars, chatVars>>

\* response.ok alone taken for success
uploadSucceeded_okOnly(reply) == reply.ok

\* response.ok && result.status === "success"
uploadSucceeded(reply) == reply.ok /\ reply.success

\* after the second delay: success calls onDataUpload(data), which is
\* handleDataUpload (setEnergyData, loadDashboardData), and onDataLoaded,
\* which is loadDashboardData; both closures saw isConnected true
uploadFinished ==
    /\ \E u \in uploads :
          /\ u.pc = "processing"
          /\ uploads' = uploads \ {u}
          /\ IF uploadSucceeded(u.reply)
             THEN /\ setUploadStatus(u, "success")
                  /\ energyData' = [kind |-> "readings", upload |-> u.id,
                                    content |-> u.content]
                  /\ loadDashboardData(TRUE, 2)
                  /\ lastSuccess' = [upload |-> u.id, loadsBefore |-> loadCount]
             ELSE /\ setUploadStatus(u, "error")
                  /\ UNCHANGED <<energyData, isLoading, loads, loadCount, lastSuccess>>
    /\ UNCHANGED uploadCount
    /\ UNCHANGED <<connection, dashboardData, deviceData, backendVer,
                   backendDevices, activeTab, pendingLoadEffect>>
    /\ UNCHANGED <<calcVars, panelVars, toolVars, billVars, alertVars,
                   thresholdVars, monitorVars, fileVars, chatVars>>

\* ---------------------------------------------- ProfessionalDashboard
predictionOptions == {15, 30, 45, 60, 90, 365}

\* a fallback that keeps the 30-day figures for every period
fallbackData_unscaled(baseData, period) ==
    [kind |-> "forecast",
     predicted_kwh |-> baseData.predicted_kwh,
     total_amount |-> baseData.total_amount,
     hasDaily |-> TRUE,
     dailyAsText |-> TRUE,
     daily_avg_kwh |-> toFixed2(baseData.predicted_kwh, period),
     daily_avg_cost |-> toFixed2(baseData.total_amount, period),
     days |-> period,
     confidence |-> "estimated"]

\* the fallbackData object of handlePredictionPeriodChange; baseData is the
\* dashboardData.prediction the call's closure saw
fallbackData(baseData, period) ==
    [kind |-> "forecast",
     predicted_kwh |-> toFixed2(baseData.predicted_kwh * period, 30),
     total_amount |-> toFixed2(baseData.total_amount * period, 30),
     hasDaily |-> TRUE,
     dailyAsText |-> TRUE,
     daily_avg_kwh |-> toFixed2(baseData.predicted_kwh * period, 30 * period),
     daily_avg_cost |-> toFixed2(baseData.total_amount * period, 30 * period),
     days |-> period,
     confidence |-> "estimated"]

\* handlePredictionPeriodChange up to its await; prediction is the
\* dashboardData?.prediction of the render the handler belongs to
handlePredictionPeriodChange(period, prediction) ==
    /\ selectedPredictionPeriod' = period
    /\ isLoadingForecast' = TRUE
    /\ forecastData' = Null
    /\ forecastReqs' = forecastReqs \cup
           {[id |-> forecastCount + 1, period |-> period, baseData |-> prediction]}
    /\ forecastCount' = forecastCount + 1

\* dashboardData?.prediction
predictionOf(d) == IF d = Null THEN Null ELSE d.prediction

\* the condition of the effect, on the values c of its render:
\* dashboardData?.prediction && !forecastData
effectCondition(c) == c.prediction # Null /\ ~c.hasForecast

\* the values the effect of a render reads, the prop being prediction
renderedPanel(prediction) ==
    [period |-> selectedPredictionPeriod,
     hasForecast |-> forecastData # Null,
     prediction |-> prediction]

\* requests the pending effect will send
forecastsReserved ==
    IF pendingPredictionEffect # Null /\ effectCondition(pendingPredictionEffect)
    THEN 1 ELSE 0

\* the effect on dashboardData?.prediction, run after the commit that
\* changed the prediction or mounted the panel, with the values of that render
predictionEffect ==
    /\ pendingPredictionEffect # Null
    /\ IF effectCondition(pendingPredictionEffect)
       THEN handlePredictionPeriodChange(pendingPredictionEffect.period,
                                         pendingPredictionEffect.prediction)
       ELSE UNCHANGED <<selectedPredictionPeriod, forecastData, isLoadingForecast,
                        forecastReqs, forecastCount>>
    /\ pendingPredictionEffect' = Null
    /\ UNCHANGED <<calcVars, pageVars, uploadVars, toolVars, billVars, alertVars,
                   thresholdVars, monitorVars, fileVars, chatVars>>

\* the user picks another horizon in the Select
selectPeriod ==
    /\ activeTab = "dashboard"
    /\ forecastCount + forecastsReserved < MaxForecasts
    /\ \E period \in predictionOptions \ {selectedPredictionPeriod} :
          handlePredictionPeriodChange(period, predictionOf(dashboardData))
    /\ UNCHANGED pendingPredictionEffect
    /\ UNCHANGED <<calcVars, pageVars, uploadVars, toolVars, billVars, alertVars,
                   thresholdVars, monitorVars, fileVars, chatVars>>

\* response.ok: the forecast of the backend is stored
forecastOk ==
    /\ \E r \in forecastReqs, kwh30 \in BaseKwh, withDaily \in BOOLEAN :
          /\ forecastData' = backendForecast(kwh30, r.period, withDaily)
          /\ forecastReqs' = forecastReqs \ {r}
    /\ isLoadingForecast' = FALSE
    /\ UNCHANGED <<selectedPredictionPeriod, forecastCount, pendingPredictionEffect>>
    /\ UNCHANGED <<calcVars, pageVars, uploadVars, toolVars, billVars, alertVars,
                   thresholdVars, monitorVars, fileVars, chatVars>>

\* the fallback of both failure branches
useFallback(r) ==
    /\ forecastData' = IF r.baseData # Null
                       THEN fallbackData(r.baseData, r.period)
                       ELSE forecastData
    /\ forecastReqs' = forecastReqs \ {r}
    /\ isLoadingForecast' = FALSE
    /\ UNCHANGED <<selectedPredictionPeriod, forecastCount, pendingPredictionEffect>>

\* a response that is not OK
forecastNotOk ==
    /\ \E r \in forecastReqs : useFallback(r)
    /\ UNCHANGED <<calcVars, pageVars, uploadVars, toolVars, billVars, alertVars,
                   thresholdVars, monitorVars, fileVars, chatVars>>

\* fetch or response.json() threw
forecastThrew ==
    /\ \E r \in forecastReqs : useFallback(r)
    /\ UNCHANGED <<calcVars, pageVars, uploadVars, toolVars, billVars, alertVars,
                   thresholdVars, monitorVars, fileVars, chatVars>>

\* the generations of the store that may have answered the four requests
\* of load l by the time its Promise.all resolves: each request is answered
\* on its own, at some moment after the fetch, from the store of that moment
Generations(l) == [Endpoints -> l.since..backendVer]

\* the object loadDashboardData hands to setDashboardData: a response that
\* is not OK gives null (suggestions: []); ver[e] is the generation of the
\* store that answered request e
loadedDashboard(l, ok, kwh30, ver) ==
    [kind |-> "dashboard",
     peak |-> IF ok["peak"] THEN Tag(l, ver["peak"]) ELSE Null,
     prediction |-> IF ok["predict"]
                    THEN [kind |-> "prediction", load |-> l.id,
                          ver |-> ver["predict"],
                          predicted_kwh |-> kwh30,
                          total_amount |-> computeBill(kwh30, KwhScale).total_amount]
                    ELSE Null,
     suggestions |-> IF ok["suggestions"] THEN Tag(l, ver["suggestions"])
                     ELSE Empty]

\* loadDashboardData after its awaits: setDashboardData, setDeviceData when
\* results[3], setIsLoading(false); the commit schedules the effect of
\* ProfessionalDashboard when the prediction it is given has changed
storeLoad(l, ok, kwh30, ver) ==
    LET loaded == loadedDashboard(l, ok, kwh30, ver)
    IN  /\ pendingPredictionEffect = Null
        /\ (activeTab = "dashboard"
              /\ effectCondition(renderedPanel(loaded.prediction)))
           => forecastCount < MaxForecasts
        /\ dashboardData' = loaded
        /\ deviceData' = IF ok["devices"]
                         THEN [kind |-> "devices", load |-> l.id,
                               ver |-> ver["devices"], map |-> backendDevices]
                         ELSE deviceData
        /\ isLoading' = FALSE
        /\ loads' = loads \ {l}
        /\ pendingPredictionEffect' =
              IF /\ activeTab = "dashboard"
                 /\ loaded.prediction # predictionOf(dashboardData)
              THEN renderedPanel(loaded.prediction)
              ELSE Null
        /\ UNCHANGED <<selectedPredictionPeriod, forecastData, isLoadingForecast,
                       forecastReqs, forecastCount>>
        /\ UNCHANGED <<connection, energyData, loadCount, backendVer,
                       backendDevices, activeTab, pendingLoadEffect>>
        /\ UNCHANGED <<calcVars, uploadVars, toolVars, billVars, alertVars,
                       thresholdVars, monitorVars, fileVars, chatVars>>

\* all four responses are OK
loadAllOk ==
    \E l \in loads, kwh30 \in BaseKwh :
        \E ver \in Generations(l) :
            storeLoad(l, [e \in Endpoints |-> TRUE], kwh30, ver)

\* every fetch resolved, at least one response is not OK
loadNotOk ==
    \E l \in loads, kwh30 \in BaseKwh, ok \in [Endpoints -> BOOLEAN] :
        \E ver \in Generations(l) :
            /\ \E e \in Endpoints : ~ok[e]
            /\ \A e \in Endpoints : ~ok[e] => ver[e] = l.since
            /\ ok["predict"] \/ kwh30 = CHOOSE k \in BaseKwh : TRUE
            /\ storeLoad(l, ok, kwh30, ver)

\* a fetch or a json() rejected: the catch logs, finally clears isLoading
loadThrew ==
    /\ \E l \in loads : loads' = loads \ {l}
    /\ isLoading' = FALSE
    /\ UNCHANGED <<connection, energyData, dashboardData, deviceData, loadCount,
                   backendVer, backendDevices, activeTab, pendingLoadEffect>>
    /\ UNCHANGED <<calcVars, panelVars, uploadVars, toolVars, billVars, alertVars,
                   thresholdVars, monitorVars, fileVars, chatVars>>

\* the page once its first load has stored four OK responses of the first
\* generation of the store
InitPageLoaded ==
    /\ connection = TRUE
    /\ energyData = Empty
    /\ dashboardData = loadedDashboard([id |-> 1, since |-> 0],
                                       [e \in Endpoints |-> TRUE], 15700,
                                       [e \in Endpoints |-> 0])
    /\ deviceData = [kind |-> "devices", load |-> 1, ver |-> 0,
                     map |-> backendDevices]
    /\ isLoading = FALSE
    /\ loads = {}
    /\ loadCount = 1
    /\ backendVer = 0
    /\ pendingLoadEffect = Null

\* ------------------------------------------------------------ ai-tools
Tools == {"getEnergyUsageSummary", "getDeviceConsumptionData",
          "getPredictedBillAndTariff", "getSpecificDeviceDetails",
          "getGeneralEnergySuggestions", "getWeatherData"}

\* timeoutMs of fetchJSON, in seconds
TimeoutSeconds == 10

\* bounds of the days schema, and the default of execute
MinDays == 1
MaxDays == 365
DefaultToolDays == 30

\* a number given as days is held as twice its value, so that halves exist
DaysTwice == {2 * MinDays - 2, 2 * MinDays - 1, 2 * MinDays, 2 * MinDays + 1,
              2 * DefaultToolDays + 30,
              2 * MaxDays - 1, 2 * MaxDays, 2 * MaxDays + 1, 2 * MaxDays + 2,
              0 - 2 * MaxDays}

\* the inputs the model hands to a tool
ToolInputs(tool) ==
    CASE tool = "getPredictedBillAndTariff" ->
            {[kind |-> "absent"]} \cup {[kind |-> "number", twice |-> n] : n \in DaysTwice}
      [] tool \in {"getSpecificDeviceDetails", "getWeatherData"} ->
            {[kind |-> "text", len |-> n] : n \in 0..1}
      [] OTHER -> {[kind |-> "absent"]}

\* the days schema without its upper bound
daysSchema_noMax(input) ==
    \/ input.kind = "absent"
    \/ /\ input.kind = "number"
       /\ input.twice % 2 = 0
       /\ input.twice >= 2 * MinDays

\* z.number().int().min(1).max(365).optional()
daysSchema(input) ==
    \/ input.kind = "absent"
    \/ /\ input.kind = "number"
       /\ input.twice % 2 = 0
       /\ input.twice >= 2 * MinDays
       /\ input.twice <= 2 * MaxDays

\* inputSchema of each tool: days, z.string().min(1), or z.object({})
inputSchema(tool, input) ==
    CASE tool = "getPredictedBillAndTariff" -> daysSchema(input)
      [] tool \in {"getSpecificDeviceDetails", "getWeatherData"} ->
            input.kind = "text" /\ input.len >= 1
      [] OTHER -> TRUE

\* the days of the URL: execute's ({ days = 30 }); 0 for the other tools
daysSent(tool, input) ==
    IF tool # "getPredictedBillAndTariff" THEN 0
    ELSE IF input.kind = "absent" THEN DefaultToolDays
    ELSE input.twice \div 2

\* a catch clause that throws the error on
caught_rethrown(error) == [kind |-> "rejected", message |-> error]

\* the catch of every execute: the error becomes the value returned
caught(error) == [kind |-> "error", message |-> error]

\* an abort that the pending fetch does not notice
aborted_unnoticed(call) == [call EXCEPT !.timer = "fired"]

\* controller.abort() when the timer fires: the pending fetch or json()
\* rejects, finally clears the timer, execute's catch returns
aborted(call) ==
    [call EXCEPT !.timer = "fired", !.pc = "done", !.cause = "timeout",
                 !.outcome = caught("AbortError")]

InitTool ==
    /\ toolCall = Null
    /\ toolCount = 0

ToolPending == toolCall # Null /\ toolCall.pc \in {"fetching", "reading"}

\* the SDK validates the input against inputSchema and, when it is valid,
\* calls execute: fetchJSON arms its timer and starts the fetch
invokeTool ==
    /\ ~ToolPending
    /\ toolCount < MaxToolCalls
    /\ toolCount' = toolCount + 1
    /\ \E tool \in Tools : \E input \in ToolInputs(tool) :
          toolCall' =
              IF inputSchema(tool, input)
              THEN [kind |-> "call", tool |-> tool, input |-> input,
                    pc |-> "fetching", sent |-> daysSent(tool, input),
                    elapsed |-> 0, timer |-> "armed", cause |-> "none",
                    outcome |-> Null]
              ELSE [kind |-> "call", tool |-> tool, input |-> input,
                    pc |-> "rejected", sent |-> 0,
                    elapsed |-> 0, timer |-> "none", cause |-> "schema",
                    outcome |-> Null]
    /\ UNCHANGED <<calcVars, pageVars, panelVars, uploadVars, billVars, alertVars,
                   thresholdVars, monitorVars, fileVars, chatVars>>

\* a second passes; a timer that is due fires before the clock moves on
tick ==
    /\ ToolPending
    /\ ~(toolCall.timer = "armed" /\ toolCall.elapsed >= TimeoutSeconds)
    /\ toolCall.elapsed < TimeoutSeconds + MaxOverrun
    /\ toolCall' = [toolCall EXCEPT !.elapsed = @ + 1]
    /\ UNCHANGED toolCount
    /\ UNCHANGED <<calcVars, pageVars, panelVars, uploadVars, billVars, alertVars,
                   thresholdVars, monitorVars, fileVars, chatVars>>

\* the setTimeout callback of fetchJSON
timeoutFires ==
    /\ ToolPending
    /\ toolCall.timer = "armed"
    /\ toolCall.elapsed = TimeoutSeconds
    /\ toolCall' = aborted(toolCall)
    /\ UNCHANGED toolCount
    /\ UNCHANGED <<calcVars, pageVars, panelVars, uploadVars, billVars, alertVars,
                   thresholdVars, monitorVars, fileVars, chatVars>>

\* fetch resolves: an OK response goes on to res.json(), any other status
\* throws "HTTP <status>"
toolResponded ==
    /\ toolCall # Null /\ toolCall.pc = "fetching" /\ toolCall.timer = "armed"
    /\ \E ok \in BOOLEAN :
          toolCall' =
              IF ok THEN [toolCall EXCEPT !.pc = "reading"]
              ELSE [toolCall EXCEPT !.pc = "done", !.timer = "cleared",
                                    !.cause = "http", !.outcome = caught("HTTP")]
    /\ UNCHANGED toolCount
    /\ UNCHANGED <<calcVars, pageVars, panelVars, uploadVars, billVars, alertVars,
                   thresholdVars, monitorVars, fileVars, chatVars>>

\* fetch rejects: the backend cannot be reached
toolFetchFailed ==
    /\ toolCall # Null /\ toolCall.pc = "fetching" /\ toolCall.timer = "armed"
    /\ toolCall' = [toolCall EXCEPT !.pc = "done", !.timer = "cleared",
                                    !.cause = "network", !.outcome = caught("TypeError")]
    /\ UNCHANGED toolCount
    /\ UNCHANGED <<calcVars, pageVars, panelVars, uploadVars, billVars, alertVars,
                   thresholdVars, monitorVars, fileVars, chatVars>>

\* res.json() settles: the parsed body is returned, or a malformed body throws
toolBodyRead ==
    /\ toolCall # Null /\ toolCall.pc = "reading" /\ toolCall.timer = "armed"
    /\ \E parsed \in BOOLEAN :
          toolCall' =
              IF parsed
              THEN [toolCall EXCEPT !.pc = "done", !.timer = "cleared",
                                    !.outcome = [kind |-> "data", message |-> "json"]]
              ELSE [toolCall EXCEPT !.pc = "done", !.timer = "cleared",
                                    !.cause = "json", !.outcome = caught("SyntaxError")]
    /\ UNCHANGED toolCount
    /\ UNCHANGED <<calcVars, pageVars, panelVars, uploadVars, billVars, alertVars,
                   thresholdVars, monitorVars, fileVars, chatVars>>

\* ---------------------------------------------------- AlertManagement
\* the items of the three Selects of the form
AlertTypes == {"peak_power", "energy_spike", "device_anomaly", "daily_consumption"}
ThresholdTypes == {"greater_than", "less_than", "equal_to"}

\* the alert types picked in the first Select
PickedAlertTypes == {"peak_power", "device_anomaly"}

\* device names of the stores considered
AvailableDevices == {"AC", "Fridge"}

\* values of the threshold field: "" or the text of a number (in 1/UnitScale)
ThresholdInputs ==
    {[kind |-> "empty"]} \cup {[kind |-> "num", q |-> q] : q \in {0, 50 * UnitScale}}

\* values of the two e-mail fields
EmailInputs == {"", "ops@example.com"}

\* ids of the settings and of the recipients the backend lists
SettingIds == {1}
RecipientIds == {1}

\* how a request ends: an OK response, a response that is not OK, or fetch
\* or response.json() rejecting
Outcomes == {"ok", "notOk", "threw"}

\* texts that come from outside the component: error.error or result.error of
\* a body, result.message of a body, the message of a rejected fetch
ServerError == "server error"
ServerMessage == "server message"
FetchError == "Failed to fetch"
\* result.result.help of the body of /test-alert; "" stands for a body
\* without help
ServerHelp == "check the SMTP settings"

\* the form after useState and after a setting was added
EmptySetting ==
    [setting_name |-> "", device_name |-> "", threshold_value |-> [kind |-> "empty"],
     threshold_type |-> "greater_than", is_enabled |-> TRUE,
     is_device_specific |-> FALSE]

\* the state of useState, no effect run yet
InitAlert ==
    /\ newSetting = EmptySetting
    /\ recipientEmail = ""
    /\ testEmail = ""
    /\ alertSettings = {}
    /\ emailRecipients = {}
    /\ availableDevices = {}
    /\ connectionTesting = FALSE
    /\ alertLoading = FALSE
    /\ alertRequests = {}
    /\ alertCount = 0
    /\ alertToast = Null
    /\ pendingAlertEffect = Null

\* the component mounted on a connected page, the four loads of its effect
\* answered with OK responses
InitAlertLoaded ==
    /\ newSetting = EmptySetting
    /\ recipientEmail = ""
    /\ testEmail = ""
    /\ alertSettings = SettingIds
    /\ emailRecipients = RecipientIds
    /\ availableDevices = DOMAIN backendDevices
    /\ connectionTesting = FALSE
    /\ alertLoading = FALSE
    /\ alertRequests = {}
    /\ alertCount = 4
    /\ alertToast = Null
    /\ pendingAlertEffect = Null

\* toast({title, description})
toast(title, description) == [title |-> title, description |-> description]

\* the requests sent by fetch calls made in a row for kinds; mounted says
\* whether the component that sends them is still mounted
sent(kinds, mounted) ==
    {[id |-> alertCount + i, kind |-> kinds[i], mounted |-> mounted] :
        i \in 1..Len(kinds)}

\* the form and the buttons are rendered: the alerts tab of a connected page
alertFormShown == activeTab = "alerts" /\ connection

\* the effect on connection.isConnected with the isConnected of its render:
\* loadAlertSettings, loadEmailRecipients, loadAlertHistory,
\* loadAvailableDevices up to their awaits
alertEffect ==
    /\ pendingAlertEffect # Null
    /\ IF pendingAlertEffect.isConnected
       THEN /\ alertRequests' = alertRequests \cup
                   sent(<<"loadAlertSettings", "loadEmailRecipients",
                          "loadAlertHistory", "loadAvailableDevices">>, TRUE)
            /\ alertCount' = alertCount + 4
       ELSE UNCHANGED <<alertRequests, alertCount>>
    /\ pendingAlertEffect' = Null
    /\ UNCHANGED <<newSetting, recipientEmail, testEmail, alertSettings,
                   emailRecipients, availableDevices, connectionTesting,
                   alertLoading, alertToast>>
    /\ UNCHANGED <<calcVars, pageVars, panelVars, uploadVars, toolVars, billVars,
                   thresholdVars, monitorVars, fileVars, chatVars>>

\* loadAlertSettings after its await: setAlertSettings(data) on an OK
\* response, the toast in the catch
alertSettingsLoaded ==
    /\ \E r \in alertRequests, outcome \in Outcomes, data \in SUBSET SettingIds :
          /\ r.kind = "loadAlertSettings"
          /\ outcome # "ok" => data = {}
          /\ alertRequests' = alertRequests \ {r}
          /\ alertSettings' = IF outcome = "ok" /\ r.mounted THEN data
                              ELSE alertSettings
          /\ alertToast' = IF outcome = "threw"
                           THEN toast("Error", "Failed to load alert settings")
                           ELSE alertToast
    /\ UNCHANGED <<newSetting, recipientEmail, testEmail, emailRecipients,
                   availableDevices, connectionTesting, alertLoading, alertCount, pendingAlertEffect>>
    /\ UNCHANGED <<calcVars, pageVars, panelVars, uploadVars, toolVars, billVars,
                   thresholdVars, monitorVars, fileVars, chatVars>>

\* loadEmailRecipients after its await
emailRecipientsLoaded ==
    /\ \E r \in alertRequests, outcome \in Outcomes, data \in SUBSET RecipientIds :
          /\ r.kind = "loadEmailRecipients"
          /\ outcome # "ok" => data = {}
          /\ alertRequests' = alertRequests \ {r}
          /\ emailRecipients' = IF outcome = "ok" /\ r.mounted THEN data
                                ELSE emailRecipients
          /\ alertToast' = IF outcome = "threw"
                           THEN toast("Error", "Failed to load email recipients")
                           ELSE alertToast
    /\ UNCHANGED <<newSetting, recipientEmail, testEmail, alertSettings,
                   availableDevices, connectionTesting, alertLoading, alertCount, pendingAlertEffect>>
    /\ UNCHANGED <<calcVars, pageVars, panelVars, uploadVars, toolVars, billVars,
                   thresholdVars, monitorVars, fileVars, chatVars>>

\* loadAlertHistory after its await; the history is rendered only
alertHistoryLoaded ==
    /\ \E r \in alertRequests, outcome \in Outcomes :
          /\ r.kind = "loadAlertHistory"
          /\ alertRequests' = alertRequests \ {r}
          /\ alertToast' = IF outcome = "threw"
                           THEN toast("Error", "Failed to load alert history")
                           ELSE alertToast
    /\ UNCHANGED <<newSetting, recipientEmail, testEmail, alertSettings,
                   emailRecipients, availableDevices, connectionTesting,
                   alertLoading, alertCount, pendingAlertEffect>>
    /\ UNCHANGED <<calcVars, pageVars, panelVars, uploadVars, toolVars, billVars,
                   thresholdVars, monitorVars, fileVars, chatVars>>

\* loadAvailableDevices after its await: Object.keys of the device
\* aggregates; its catch only logs
availableDevicesLoaded ==
    /\ \E r \in alertRequests, outcome \in Outcomes :
          /\ r.kind = "loadAvailableDevices"
          /\ alertRequests' = alertRequests \ {r}
          /\ availableDevices' = IF outcome = "ok" /\ r.mounted
                                 THEN DOMAIN backendDevices
                                 ELSE availableDevices
    /\ UNCHANGED <<newSetting, recipientEmail, testEmail, alertSettings,
                   emailRecipients, connectionTesting, alertLoading, alertCount, alertToast, pendingAlertEffect>>
    /\ UNCHANGED <<calcVars, pageVars, panelVars, uploadVars, toolVars, billVars,
                   thresholdVars, monitorVars, fileVars, chatVars>>

\* the setNewSetting calls of the form's controls
editSetting ==
    /\ alertFormShown
    /\ \/ \E v \in PickedAlertTypes :
             newSetting' = [newSetting EXCEPT !.setting_name = v]
       \/ \E checked \in BOOLEAN :
             newSetting' = [newSetting EXCEPT !.is_device_specific = checked,
                                              !.device_name = ""]
       \/ /\ newSetting.is_device_specific
          /\ \E v \in availableDevices :
                newSetting' = [newSetting EXCEPT !.device_name = v]
       \/ \E v \in ThresholdInputs :
             newSetting' = [newSetting EXCEPT !.threshold_value = v]
       \/ \E v \in ThresholdTypes :
             newSetting' = [newSetting EXCEPT !.threshold_type = v]
    /\ newSetting' # newSetting
    /\ UNCHANGED <<recipientEmail, testEmail, alertSettings, emailRecipients,
                   availableDevices, connectionTesting, alertLoading, alertRequests, alertCount, alertToast, pendingAlertEffect>>
    /\ UNCHANGED <<calcVars, pageVars, panelVars, uploadVars, toolVars, billVars,
                   thresholdVars, monitorVars, fileVars, chatVars>>

\* onChange of the e-mail field of the recipient form
setRecipientEmail ==
    /\ alertFormShown
    /\ \E v \in EmailInputs :
          /\ v # recipientEmail
          /\ recipientEmail' = v
    /\ UNCHANGED <<newSetting, testEmail, alertSettings, emailRecipients,
                   availableDevices, connectionTesting, alertLoading, alertRequests, alertCount, alertToast, pendingAlertEffect>>
    /\ UNCHANGED <<calcVars, pageVars, panelVars, uploadVars, toolVars, billVars,
                   thresholdVars, monitorVars, fileVars, chatVars>>

\* onChange of the field of the test form
setTestEmail ==
    /\ alertFormShown
    /\ \E v \in EmailInputs :
          /\ v # testEmail
          /\ testEmail' = v
    /\ UNCHANGED <<newSetting, recipientEmail, alertSettings, emailRecipients,
                   availableDevices, connectionTesting, alertLoading, alertRequests, alertCount, alertToast, pendingAlertEffect>>
    /\ UNCHANGED <<calcVars, pageVars, panelVars, uploadVars, toolVars, billVars,
                   thresholdVars, monitorVars, fileVars, chatVars>>

\* the first check: !setting_name || !threshold_value
requiredMissing(form) ==
    form.setting_name = "" \/ form.threshold_value.kind = "empty"

\* the second check: is_device_specific && !device_name
deviceMissing(form) == form.is_device_specific /\ form.device_name = ""

\* device_name of a body that sends the field of the form as it is
deviceNameSent_asTyped(form) ==
    [kind |-> "name", name |-> form.device_name]

\* device_name of the body: is_device_specific ? device_name : null
deviceNameSent(form) ==
    IF form.is_device_specific
    THEN [kind |-> "name", name |-> form.device_name]
    ELSE Null

\* the JSON body of the POST
settingBody(form) ==
    [setting_name |-> form.setting_name,
     device_name |-> deviceNameSent(form),
     threshold_value |-> form.threshold_value.q,
     threshold_type |-> form.threshold_type,
     is_enabled |-> form.is_enabled]

\* a handler that sets loading: setLoading(true) and one request of kind
sendLoading(kind) ==
    /\ alertLoading' = TRUE
    /\ alertRequests' = alertRequests \cup sent(<<kind>>, TRUE)
    /\ alertCount' = alertCount + 1

\* the end of such a handler: the toast, the refresh of the list when there
\* is one (refresh is << >> or the kind of the load), and setLoading(false)
\* in finally; the setters change nothing once the component is unmounted
endLoading(r, shown, refresh) ==
    /\ alertToast' = shown
    /\ alertRequests' = (alertRequests \ {r}) \cup sent(refresh, r.mounted)
    /\ alertCount' = alertCount + Len(refresh)
    /\ alertLoading' = IF r.mounted THEN FALSE ELSE alertLoading

\* handleAddAlertSetting up to its await; the button is disabled while loading
handleAddAlertSetting ==
    /\ alertFormShown
    /\ ~alertLoading
    /\ IF requiredMissing(newSetting)
       THEN /\ alertToast' = toast("Error", "Please fill in all required fields")
            /\ UNCHANGED <<alertLoading, alertRequests, alertCount>>
       ELSE IF deviceMissing(newSetting)
       THEN /\ alertToast' =
                   toast("Error", "Please select a device for device-specific threshold")
            /\ UNCHANGED <<alertLoading, alertRequests, alertCount>>
       ELSE /\ alertCount + 2 <= MaxAlertRequests
            /\ alertLoading' = TRUE
            /\ alertRequests' = alertRequests \cup
                   {[id |-> alertCount + 1, kind |-> "addAlertSetting",
                     mounted |-> TRUE, form |-> newSetting,
                     body |-> settingBody(newSetting)]}
            /\ alertCount' = alertCount + 1
            /\ UNCHANGED alertToast
    /\ UNCHANGED <<newSetting, recipientEmail, testEmail, alertSettings,
                   emailRecipients, availableDevices, connectionTesting,
                   pendingAlertEffect>>
    /\ UNCHANGED <<calcVars, pageVars, panelVars, uploadVars, toolVars, billVars,
                   thresholdVars, monitorVars, fileVars, chatVars>>

\* response.ok: the Success toast, the form is reset, loadAlertSettings()
\* is called; finally clears loading
alertCreated ==
    /\ \E r \in alertRequests :
          /\ r.kind = "addAlertSetting"
          /\ endLoading(r, toast("Success", "Alert setting added successfully"),
                        <<"loadAlertSettings">>)
          /\ newSetting' = IF r.mounted THEN EmptySetting ELSE newSetting
    /\ UNCHANGED <<recipientEmail, testEmail, alertSettings, emailRecipients,
                   availableDevices, connectionTesting, pendingAlertEffect>>
    /\ UNCHANGED <<calcVars, pageVars, panelVars, uploadVars, toolVars, billVars,
                   thresholdVars, monitorVars, fileVars, chatVars>>

\* a response that is not OK (error.error of its body, or the default
\* message), or fetch rejecting: the Error toast with the error's message
alertFailed ==
    /\ \E r \in alertRequests,
          message \in {ServerError, "Failed to add alert setting", FetchError} :
          /\ r.kind = "addAlertSetting"
          /\ endLoading(r, toast("Error", message), << >>)
    /\ UNCHANGED <<newSetting, recipientEmail, testEmail, alertSettings,
                   emailRecipients, availableDevices, connectionTesting,
                   pendingAlertEffect>>
    /\ UNCHANGED <<calcVars, pageVars, panelVars, uploadVars, toolVars, billVars,
                   thresholdVars, monitorVars, fileVars, chatVars>>

\* handleDeleteAlertSetting(setting.id) up to its await, from the button of
\* a setting listed
handleDeleteAlertSetting ==
    /\ alertFormShown
    /\ ~alertLoading
    /\ alertSettings # {}
    /\ alertCount + 2 <= MaxAlertRequests
    /\ sendLoading("deleteAlertSetting")
    /\ UNCHANGED <<newSetting, recipientEmail, testEmail, alertSettings,
                   emailRecipients, availableDevices, connectionTesting,
                   alertToast, pendingAlertEffect>>
    /\ UNCHANGED <<calcVars, pageVars, panelVars, uploadVars, toolVars, billVars,
                   thresholdVars, monitorVars, fileVars, chatVars>>

\* the DELETE of a setting ends: Success and loadAlertSettings(), or the
\* Error toast of the catch
alertSettingDeleted ==
    /\ \E r \in alertRequests, outcome \in Outcomes :
          /\ r.kind = "deleteAlertSetting"
          /\ IF outcome = "ok"
             THEN endLoading(r, toast("Success", "Alert setting deleted successfully"),
                             <<"loadAlertSettings">>)
             ELSE endLoading(r, toast("Error", "Failed to delete alert setting"),
                             << >>)
    /\ UNCHANGED <<newSetting, recipientEmail, testEmail, alertSettings,
                   emailRecipients, availableDevices, connectionTesting,
                   pendingAlertEffect>>
    /\ UNCHANGED <<calcVars, pageVars, panelVars, uploadVars, toolVars, billVars,
                   thresholdVars, monitorVars, fileVars, chatVars>>

\* handleAddEmailRecipient up to its await
handleAddEmailRecipient ==
    /\ alertFormShown
    /\ ~alertLoading
    /\ IF recipientEmail = ""
       THEN /\ alertToast' = toast("Error", "Please enter an email address")
            /\ UNCHANGED <<alertLoading, alertRequests, alertCount>>
       ELSE /\ alertCount + 2 <= MaxAlertRequests
            /\ sendLoading("addEmailRecipient")
            /\ UNCHANGED alertToast
    /\ UNCHANGED <<newSetting, recipientEmail, testEmail, alertSettings,
                   emailRecipients, availableDevices, connectionTesting,
                   pendingAlertEffect>>
    /\ UNCHANGED <<calcVars, pageVars, panelVars, uploadVars, toolVars, billVars,
                   thresholdVars, monitorVars, fileVars, chatVars>>

\* response.ok: Success, the recipient form is reset, loadEmailRecipients()
emailRecipientAdded ==
    /\ \E r \in alertRequests :
          /\ r.kind = "addEmailRecipient"
          /\ endLoading(r, toast("Success", "Email recipient added successfully"),
                        <<"loadEmailRecipients">>)
          /\ recipientEmail' = IF r.mounted THEN "" ELSE recipientEmail
    /\ UNCHANGED <<newSetting, testEmail, alertSettings, emailRecipients,
                   availableDevices, connectionTesting, pendingAlertEffect>>
    /\ UNCHANGED <<calcVars, pageVars, panelVars, uploadVars, toolVars, billVars,
                   thresholdVars, monitorVars, fileVars, chatVars>>

\* a response that is not OK, or fetch rejecting: the Error toast
emailRecipientFailed ==
    /\ \E r \in alertRequests,
          message \in {ServerError, "Failed to add email recipient", FetchError} :
          /\ r.kind = "addEmailRecipient"
          /\ endLoading(r, toast("Error", message), << >>)
    /\ UNCHANGED <<newSetting, recipientEmail, testEmail, alertSettings,
                   emailRecipients, availableDevices, connectionTesting,
                   pendingAlertEffect>>
    /\ UNCHANGED <<calcVars, pageVars, panelVars, uploadVars, toolVars, billVars,
                   thresholdVars, monitorVars, fileVars, chatVars>>

\* handleDeleteEmailRecipient(recipient.id) up to its await
handleDeleteEmailRecipient ==
    /\ alertFormShown
    /\ ~alertLoading
    /\ emailRecipients # {}
    /\ alertCount + 2 <= MaxAlertRequests
    /\ sendLoading("deleteEmailRecipient")
    /\ UNCHANGED <<newSetting, recipientEmail, testEmail, alertSettings,
                   emailRecipients, availableDevices, connectionTesting,
                   alertToast, pendingAlertEffect>>
    /\ UNCHANGED <<calcVars, pageVars, panelVars, uploadVars, toolVars, billVars,
                   thresholdVars, monitorVars, fileVars, chatVars>>

\* the DELETE of a recipient ends
emailRecipientDeleted ==
    /\ \E r \in alertRequests, outcome \in Outcomes :
          /\ r.kind = "deleteEmailRecipient"
          /\ IF outcome = "ok"
             THEN endLoading(r, toast("Success", "Email recipient deleted successfully"),
                             <<"loadEmailRecipients">>)
             ELSE endLoading(r, toast("Error", "Failed to delete email recipient"),
                             << >>)
    /\ UNCHANGED <<newSetting, recipientEmail, testEmail, alertSettings,
                   emailRecipients, availableDevices, connectionTesting,
                   pendingAlertEffect>>
    /\ UNCHANGED <<calcVars, pageVars, panelVars, uploadVars, toolVars, billVars,
                   thresholdVars, monitorVars, fileVars, chatVars>>

\* handleSendTestAlert up to its await; the button is disabled while loading
\* and while the field is empty
handleSendTestAlert ==
    /\ alertFormShown
    /\ ~alertLoading /\ testEmail # ""
    /\ alertCount < MaxAlertRequests
    /\ sendLoading("sendTestAlert")
    /\ UNCHANGED <<newSetting, recipientEmail, testEmail, alertSettings,
                   emailRecipients, availableDevices, connectionTesting,
                   alertToast, pendingAlertEffect>>
    /\ UNCHANGED <<calcVars, pageVars, panelVars, uploadVars, toolVars, billVars,
                   thresholdVars, monitorVars, fileVars, chatVars>>

\* errorMessage of the branch that is not OK: result.error or the default
\* message, with ". " and result.result.help appended when the body has it
testAlertError(message, help) ==
    IF help = "" THEN message ELSE message \o ". " \o help

\* the POST to /test-alert ends: Success and the field is cleared, the
\* "Test Alert Failed" toast with errorMessage, or the Error toast of the
\* catch
testAlertSent ==
    /\ \E r \in alertRequests, outcome \in Outcomes,
          message \in {ServerError, "Failed to send test alert"},
          help \in {"", ServerHelp} :
          /\ r.kind = "sendTestAlert"
          /\ outcome # "notOk" => (message = ServerError /\ help = "")
          /\ endLoading(r,
                CASE outcome = "ok" ->
                        toast("Success", "Test alert sent successfully")
                  [] outcome = "notOk" ->
                        toast("Test Alert Failed", testAlertError(message, help))
                  [] OTHER -> toast("Error", FetchError),
                << >>)
          /\ testEmail' = IF outcome = "ok" /\ r.mounted THEN "" ELSE testEmail
    /\ UNCHANGED <<newSetting, recipientEmail, alertSettings, emailRecipients,
                   availableDevices, connectionTesting, pendingAlertEffect>>
    /\ UNCHANGED <<calcVars, pageVars, panelVars, uploadVars, toolVars, billVars,
                   thresholdVars, monitorVars, fileVars, chatVars>>

\* handleTestConnection up to its await; the button is disabled while testing
handleTestConnection ==
    /\ alertFormShown
    /\ ~connectionTesting
    /\ alertCount < MaxAlertRequests
    /\ connectionTesting' = TRUE
    /\ alertRequests' = alertRequests \cup sent(<<"testConnection">>, TRUE)
    /\ alertCount' = alertCount + 1
    /\ UNCHANGED <<newSetting, recipientEmail, testEmail, alertSettings,
                   emailRecipients, availableDevices, alertLoading, alertToast, pendingAlertEffect>>
    /\ UNCHANGED <<calcVars, pageVars, panelVars, uploadVars, toolVars, billVars,
                   thresholdVars, monitorVars, fileVars, chatVars>>

\* the POST to /test-email-connection ends: the body says success or not
\* (whatever the status), or fetch or json() rejected
connectionTested ==
    /\ \E r \in alertRequests, outcome \in {"success", "failure", "threw"} :
          /\ r.kind = "testConnection"
          /\ alertRequests' = alertRequests \ {r}
          /\ connectionTesting' = IF r.mounted THEN FALSE ELSE connectionTesting
          /\ alertToast' =
                CASE outcome = "success" ->
                        toast("Connection Successful", ServerMessage)
                  [] outcome = "failure" -> toast("Connection Failed", ServerError)
                  [] OTHER -> toast("Error", "Failed to test email connection")
    /\ UNCHANGED <<newSetting, recipientEmail, testEmail, alertSettings,
                   emailRecipients, availableDevices, alertLoading, alertCount, pendingAlertEffect>>
    /\ UNCHANGED <<calcVars, pageVars, panelVars, uploadVars, toolVars, billVars,
                   thresholdVars, monitorVars, fileVars, chatVars>>

\* ------------------------------------------------------- device views
\* the entries a device map holds: the fields the views read; a device may
\* carry no efficiencyStatus (the page's DeviceData type has none)
DeviceRecords ==
    [isActive : BOOLEAN, currentPower : {0, 5},
     efficiencyStatus : {"proper", "improper", "absent"}]

\* the device maps of /devices, keyed by device name
DeviceMaps ==
    UNION {[names -> DeviceRecords] : names \in SUBSET AvailableDevices}

\* onTabChange of the sidebar (and of the "Upload Data" button of
\* DeviceMonitoring): the content is keyed by activeTab, so the component
\* of the tab left is unmounted, its state is gone and the setters of its
\* requests in flight change nothing any more; the component of the new tab
\* is mounted with the state of useState and its effects are scheduled
setActiveTab ==
    /\ NoPendingEffects
    /\ \E tab \in Tabs :
          /\ tab # activeTab
          /\ activeTab' = tab
          /\ IF "dashboard" \in {activeTab, tab}
             THEN /\ (tab = "dashboard" /\ predictionOf(dashboardData) # Null)
                        => forecastCount < MaxForecasts
                  /\ selectedPredictionPeriod' = 30
                  /\ forecastData' = Null
                  /\ isLoadingForecast' = FALSE
                  /\ forecastReqs' = {}
                  /\ pendingPredictionEffect' =
                        IF tab = "dashboard"
                        THEN [period |-> 30, hasForecast |-> FALSE,
                              prediction |-> predictionOf(dashboardData)]
                        ELSE Null
                  /\ UNCHANGED forecastCount
             ELSE UNCHANGED panelVars
          /\ IF "devices" \in {activeTab, tab}
             THEN /\ selectedDevice' = NoDevice
                  /\ selectedDeviceDetails' = Null
                  /\ isLoadingDetails' = FALSE
                  /\ detailReqs' = {}
                  /\ pendingDetailsEffect' =
                        IF tab = "devices"
                        THEN [selectedDevice |-> NoDevice, isConnected |-> connection]
                        ELSE Null
                  /\ UNCHANGED detailCount
             ELSE UNCHANGED monitorVars
          /\ IF "upload" \in {activeTab, tab}
             THEN /\ uploadStatus' = "null"
                  /\ uploads' = {[u EXCEPT !.mounted = FALSE] : u \in uploads}
                  /\ UNCHANGED <<uploadCount, lastSuccess>>
             ELSE UNCHANGED uploadVars
          /\ IF "calculator" \in {activeTab, tab}
             THEN /\ billUnits' = [kind |-> "empty"]
                  /\ billData' = Null
                  /\ billIsLoading' = FALSE
                  /\ billError' = ""
                  /\ billRequest' = Null
                  /\ billCall' = Null
             ELSE UNCHANGED billVars
          /\ IF "alerts" \in {activeTab, tab}
             THEN /\ (tab = "alerts" /\ connection)
                        => alertCount + 4 <= MaxAlertRequests
                  /\ newSetting' = EmptySetting
                  /\ recipientEmail' = ""
                  /\ testEmail' = ""
                  /\ alertSettings' = {}
                  /\ emailRecipients' = {}
                  /\ availableDevices' = {}
                  /\ connectionTesting' = FALSE
                  /\ alertLoading' = FALSE
                  /\ alertRequests' =
                        {[r EXCEPT !.mounted = FALSE] : r \in alertRequests}
                  /\ pendingAlertEffect' =
                        IF tab = "alerts" THEN [isConnected |-> connection] ELSE Null
                  /\ thresholdRow' = Null
                  /\ UNCHANGED <<alertCount, alertToast>>
             ELSE UNCHANGED <<alertVars, thresholdVars>>
    /\ UNCHANGED <<connection, energyData, dashboardData, deviceData, isLoading,
                   loads, loadCount, backendVer, backendDevices, pendingLoadEffect>>
    /\ UNCHANGED <<calcVars, toolVars, fileVars, chatVars>>

\* Object.entries(deviceData).length
totalDevices(m) == Cardinality(DOMAIN m)

\* ProfessionalDashboard: filter(device.isActive).length
dashboardActiveDevices(m) == Cardinality({d \in DOMAIN m : m[d].isActive})

\* Analytics: filter(data.currentPower > 0).length
analyticsActiveDevices(m) == Cardinality({d \in DOMAIN m : m[d].currentPower > 0})

\* DeviceOverview: the Active/Idle badge, data.isActive
overviewBadgeActive(m, d) == m[d].isActive

\* Analytics: the Active/Idle badge, data.currentPower > 0
analyticsBadgeActive(m, d) == m[d].currentPower > 0

\* Analytics: filter(efficiencyStatus === "proper").length, 0 without devices
properCount(m) ==
    IF totalDevices(m) > 0
    THEN Cardinality({d \in DOMAIN m : m[d].efficiencyStatus = "proper"})
    ELSE 0

\* Analytics: totalDevices - properCount
improperCount(m) == totalDevices(m) - properCount(m)

\* Analytics: properRate as the fraction num / den of 100 percent
properRate(m) ==
    IF totalDevices(m) > 0
    THEN [num |-> properCount(m) * 100, den |-> totalDevices(m)]
    ELSE [num |-> 0, den |-> 1]

\* Analytics: the names under "Proper Devices" and under "Needs Attention"
properList(m) == {d \in DOMAIN m : m[d].efficiencyStatus = "proper"}
needsAttentionList(m) == {d \in DOMAIN m : m[d].efficiencyStatus = "improper"}

\* DeviceOverview and Analytics: the Proper/Improper badge
statusBadge(m, d) ==
    IF m[d].efficiencyStatus = "proper" THEN "proper" ELSE "improper"

\* ------------------------------------------- DeviceThresholdOverview
\* a reading or a threshold is a multiple of 1/ReadingScale (a power of two,
\* so that sums and differences of readings are exact doubles)
ReadingScale == 256

\* the values of a JavaScript number an expression of getProgressValue takes:
\* NaN, an infinity, or the fraction num / den (den > 0)
NotANumber == [kind |-> "NaN"]
jsInfinity(sign) == [kind |-> "Infinity", sign |-> sign]
jsFinite(num, den) == [kind |-> "finite", num |-> num, den |-> den]

\* (current / threshold) * 100
ratioTimes100(current, threshold) ==
    IF threshold = 0
    THEN IF current = 0 THEN NotANumber
         ELSE jsInfinity(IF current > 0 THEN 1 ELSE -1)
    ELSE IF threshold > 0 THEN jsFinite(100 * current, threshold)
    ELSE jsFinite(0 - 100 * current, 0 - threshold)

\* Math.min(x, 100)
mathMin100(x) ==
    IF x.kind = "NaN" THEN NotANumber
    ELSE IF x.kind = "Infinity" THEN (IF x.sign > 0 THEN jsFinite(100, 1) ELSE x)
    ELSE IF x.num > 100 * x.den THEN jsFinite(100, 1) ELSE x

\* Math.max(100 - x, 0)
mathMax0Of100Minus(x) ==
    IF x.kind = "NaN" THEN NotANumber
    ELSE IF x.kind = "Infinity" THEN (IF x.sign > 0 THEN jsFinite(0, 1) ELSE jsInfinity(1))
    ELSE IF 100 * x.den - x.num < 0 THEN jsFinite(0, 1)
    ELSE jsFinite(100 * x.den - x.num, x.den)

\* x > 80
above80(x) ==
    IF x.kind = "NaN" THEN FALSE
    ELSE IF x.kind = "Infinity" THEN x.sign > 0
    ELSE x.num > 80 * x.den

getProgressValue(current, threshold, type) ==
    IF type = "greater_than" THEN mathMin100(ratioTimes100(current, threshold))
    ELSE IF type = "less_than" THEN mathMax0Of100Minus(ratioTimes100(current, threshold))
    ELSE jsFinite(50, 1)

\* Math.abs(current - threshold) < 0.01
nearlyEqual(current, threshold) ==
    IF current >= threshold
    THEN 100 * (current - threshold) < ReadingScale
    ELSE 100 * (threshold - current) < ReadingScale

\* an isExceeded that takes a value at the threshold for exceeding it
isExceeded_inclusive(current, threshold, type) ==
    \/ type = "greater_than" /\ current >= threshold
    \/ type = "less_than" /\ current <= threshold
    \/ type = "equal_to" /\ nearlyEqual(current, threshold)

\* isExceeded of getProgressColor
isExceeded(current, threshold, type) ==
    \/ type = "greater_than" /\ current > threshold
    \/ type = "less_than" /\ current < threshold
    \/ type = "equal_to" /\ nearlyEqual(current, threshold)

getProgressColor(current, threshold, type) ==
    IF isExceeded(current, threshold, type) THEN "bg-red-500"
    ELSE IF above80(getProgressValue(current, threshold, type)) THEN "bg-yellow-500"
    ELSE "bg-green-500"

\* current_power or current_energy of a device, in 1/ReadingScale
CurrentValues == {0, 253, 254, 256, 258, 259, 1100, 1280, 1536}

\* threshold_value of a setting, in 1/ReadingScale: the form of
\* AlertManagement takes any text that is not empty, "0" and "-1" included
ThresholdValues == {0 - 256, 0, 256, 1280}

\* threshold_type of a setting: the three of the form, and one the view
\* does not know
StoredThresholdTypes == ThresholdTypes \cup {"not_equal"}

InitThreshold == thresholdRow = Null

\* the callback of device.thresholds.map: one threshold row of a device card
renderThresholdRow ==
    /\ alertFormShown
    /\ \E currentValue \in CurrentValues, threshold_value \in ThresholdValues,
          threshold_type \in StoredThresholdTypes :
          thresholdRow' =
              [currentValue |-> currentValue,
               threshold_value |-> threshold_value,
               threshold_type |-> threshold_type,
               progressValue |-> getProgressValue(currentValue, threshold_value,
                                                  threshold_type),
               color |-> getProgressColor(currentValue, threshold_value,
                                          threshold_type)]
    /\ UNCHANGED <<calcVars, pageVars, panelVars, uploadVars, toolVars, billVars,
                   alertVars, monitorVars, fileVars, chatVars>>

\* ---------------------------------------------------- DeviceMonitoring
\* the device aggregates of a store with three devices
MonitoredDevices ==
    [d \in {"AC", "Fridge", "Television"} |->
        [isActive |-> TRUE, currentPower |-> 5, efficiencyStatus |-> "proper"]]

\* devices = Object.entries(deviceData): the names of the device cards
deviceCards == IF deviceData = Empty THEN {} ELSE DOMAIN deviceData.map

InitMonitor ==
    /\ selectedDevice = NoDevice
    /\ selectedDeviceDetails = Null
    /\ isLoadingDetails = FALSE
    /\ detailReqs = {}
    /\ detailCount = 0
    /\ pendingDetailsEffect = Null

\* the body of /api/device/<deviceName>: the details of that device
backendDeviceDetails(deviceName) ==
    [kind |-> "details", device_name |-> deviceName]

\* fetchDeviceDetails up to its await
fetchDeviceDetails(deviceName) ==
    /\ isLoadingDetails' = TRUE
    /\ detailReqs' = detailReqs \cup {[id |-> detailCount + 1, deviceName |-> deviceName]}
    /\ detailCount' = detailCount + 1
    /\ UNCHANGED selectedDeviceDetails

\* onClick of a device card: setSelectedDevice; the commit schedules the
\* effect on selectedDevice
selectDevice ==
    /\ activeTab = "devices"
    /\ pendingDetailsEffect = Null
    /\ \E deviceName \in deviceCards :
          /\ deviceName # selectedDevice
          /\ connection => detailCount < MaxDetailReqs
          /\ selectedDevice' = deviceName
          /\ pendingDetailsEffect' =
                [selectedDevice |-> deviceName, isConnected |-> connection]
    /\ UNCHANGED <<selectedDeviceDetails, isLoadingDetails, detailReqs, detailCount>>
    /\ UNCHANGED <<calcVars, pageVars, panelVars, uploadVars, toolVars, billVars,
                   alertVars, thresholdVars, fileVars, chatVars>>

\* the effect on selectedDevice and connection.isConnected, with the values
\* of its render: fetchDeviceDetails, or setSelectedDeviceDetails(null)
detailsEffect ==
    /\ pendingDetailsEffect # Null
    /\ IF /\ pendingDetailsEffect.selectedDevice # NoDevice
          /\ pendingDetailsEffect.isConnected
       THEN fetchDeviceDetails(pendingDetailsEffect.selectedDevice)
       ELSE /\ selectedDeviceDetails' = Null
            /\ UNCHANGED <<isLoadingDetails, detailReqs, detailCount>>
    /\ pendingDetailsEffect' = Null
    /\ UNCHANGED selectedDevice
    /\ UNCHANGED <<calcVars, pageVars, panelVars, uploadVars, toolVars, billVars,
                   alertVars, thresholdVars, fileVars, chatVars>>

\* response.ok: the details are stored; finally clears isLoadingDetails
detailsOk ==
    /\ \E r \in detailReqs :
          /\ selectedDeviceDetails' = backendDeviceDetails(r.deviceName)
          /\ detailReqs' = detailReqs \ {r}
    /\ isLoadingDetails' = FALSE
    /\ UNCHANGED <<selectedDevice, detailCount, pendingDetailsEffect>>
    /\ UNCHANGED <<calcVars, pageVars, panelVars, uploadVars, toolVars, billVars,
                   alertVars, thresholdVars, fileVars, chatVars>>

\* a response that is not OK, or fetch or json() throwing: the catch
detailsFailed ==
    /\ \E r \in detailReqs : detailReqs' = detailReqs \ {r}
    /\ selectedDeviceDetails' = Null
    /\ isLoadingDetails' = FALSE
    /\ UNCHANGED <<selectedDevice, detailCount, pendingDetailsEffect>>
    /\ UNCHANGED <<calcVars, pageVars, panelVars, uploadVars, toolVars, billVars,
                   alertVars, thresholdVars, fileVars, chatVars>>

\* ---------------------------------------------------------- FileUpload
InitFile ==
    /\ isDragOver = FALSE
    /\ fileDialogOpen = FALSE
    /\ fileUploadCall = Null
    /\ fileUploadCount = 0

\* handleFile of FileUpload: the extension check, then onFileUpload(file);
\* isConnected is the prop of the render the handler belongs to
FileUpload_handleFile(file) ==
    IF ~file.json
    THEN UNCHANGED <<fileUploadCall, fileUploadCount>>
    ELSE /\ fileUploadCount < MaxFileCalls
         /\ fileUploadCall' = [file |-> file, isConnected |-> connection]
         /\ fileUploadCount' = fileUploadCount + 1

FileUpload_handleDragOver ==
    /\ ~isDragOver
    /\ isDragOver' = TRUE
    /\ UNCHANGED <<fileDialogOpen, fileUploadCall, fileUploadCount>>
    /\ UNCHANGED <<calcVars, pageVars, panelVars, uploadVars, toolVars, billVars,
                   alertVars, thresholdVars, monitorVars, chatVars>>

FileUpload_handleDragLeave ==
    /\ isDragOver
    /\ isDragOver' = FALSE
    /\ UNCHANGED <<fileDialogOpen, fileUploadCall, fileUploadCount>>
    /\ UNCHANGED <<calcVars, pageVars, panelVars, uploadVars, toolVars, billVars,
                   alertVars, thresholdVars, monitorVars, chatVars>>

\* onDrop of the drop zone, with the file dragged over it
FileUpload_handleDrop ==
    /\ isDragOver
    /\ isDragOver' = FALSE
    /\ \E file \in Files : FileUpload_handleFile(file)
    /\ UNCHANGED fileDialogOpen
    /\ UNCHANGED <<calcVars, pageVars, panelVars, uploadVars, toolVars, billVars,
                   alertVars, thresholdVars, monitorVars, chatVars>>

\* onClick of the drop zone: isConnected && fileInputRef.current?.click()
dropZoneClick ==
    /\ connection
    /\ ~fileDialogOpen
    /\ fileDialogOpen' = TRUE
    /\ UNCHANGED <<isDragOver, fileUploadCall, fileUploadCount>>
    /\ UNCHANGED <<calcVars, pageVars, panelVars, uploadVars, toolVars, billVars,
                   alertVars, thresholdVars, monitorVars, chatVars>>

\* onChange of the hidden input: a file was picked in the dialog
FileUpload_handleFileSelect ==
    /\ fileDialogOpen
    /\ fileDialogOpen' = FALSE
    /\ \E file \in Files : FileUpload_handleFile(file)
    /\ UNCHANGED isDragOver
    /\ UNCHANGED <<calcVars, pageVars, panelVars, uploadVars, toolVars, billVars,
                   alertVars, thresholdVars, monitorVars, chatVars>>

\* the dialog is closed without a file: no change event
fileDialogCancelled ==
    /\ fileDialogOpen
    /\ fileDialogOpen' = FALSE
    /\ UNCHANGED <<isDragOver, fileUploadCall, fileUploadCount>>
    /\ UNCHANGED <<calcVars, pageVars, panelVars, uploadVars, toolVars, billVars,
                   alertVars, thresholdVars, monitorVars, chatVars>>

\* --------------------------------------------------------- AIAssistant
\* texts of the input field: empty, blanks only, a quick action, a question
ChatInputs == {"", " ", "How can I save energy?", "Why is my bill high?"}

\* !input.trim()
isBlank(text) == text \in {"", " "}

\* the greeting the message list starts with
Greeting == [type |-> "ai", content |-> "greeting"]

InitChat ==
    /\ messages = <<Greeting>>
    /\ chatInput = ""
    /\ isTyping = FALSE
    /\ chatRequest = Null
    /\ chatCall = Null
    /\ chatCount = 0

\* onChange of the input field and onClick of a quick action; all of them
\* are disabled while isTyping
setInput ==
    /\ ~isTyping
    /\ \E text \in ChatInputs :
          /\ text # chatInput
          /\ chatInput' = text
    /\ UNCHANGED <<messages, isTyping, chatRequest, chatCall, chatCount>>
    /\ UNCHANGED <<calcVars, pageVars, panelVars, uploadVars, toolVars, billVars,
                   alertVars, thresholdVars, monitorVars, fileVars>>

\* sendMessage up to its await, from the Enter key of the enabled field or
\* the enabled button
sendMessage ==
    /\ ~isTyping
    /\ IF isBlank(chatInput)
       THEN /\ chatCall' = [input |-> chatInput, outcome |-> "returned"]
            /\ UNCHANGED <<messages, chatInput, isTyping, chatRequest, chatCount>>
       ELSE /\ chatCount < MaxTurns
            /\ messages' = Append(messages, [type |-> "user", content |-> chatInput])
            /\ chatInput' = ""
            /\ isTyping' = TRUE
            /\ chatRequest' =
                   [kind |-> "post",
                    messages |-> Append(messages, [type |-> "user", content |-> chatInput])]
            /\ chatCall' = [input |-> chatInput, outcome |-> "sent"]
            /\ chatCount' = chatCount + 1
    /\ UNCHANGED <<calcVars, pageVars, panelVars, uploadVars, toolVars, billVars,
                   alertVars, thresholdVars, monitorVars, fileVars>>

\* the end of sendMessage: one message of the assistant, then finally
endTurn(content) ==
    /\ messages' = Append(messages, [type |-> "ai", content |-> content])
    /\ isTyping' = FALSE
    /\ chatRequest' = Null
    /\ UNCHANGED <<chatInput, chatCall, chatCount>>

\* an OK response with data.message: the reply is appended
chatReplied ==
    /\ chatRequest # Null
    /\ endTurn("reply")
    /\ UNCHANGED <<calcVars, pageVars, panelVars, uploadVars, toolVars, billVars,
                   alertVars, thresholdVars, monitorVars, fileVars>>

\* a catch that appends nothing
chatFailed_silent ==
    /\ chatRequest # Null
    /\ isTyping' = FALSE
    /\ chatRequest' = Null
    /\ UNCHANGED <<messages, chatInput, chatCall, chatCount>>
    /\ UNCHANGED <<calcVars, pageVars, panelVars, uploadVars, toolVars, billVars,
                   alertVars, thresholdVars, monitorVars, fileVars>>

\* a response that is not OK, a body without message, or fetch or json()
\* throwing: the catch appends the error message
chatFailed ==
    /\ chatRequest # Null
    /\ endTurn("error")
    /\ UNCHANGED <<calcVars, pageVars, panelVars, uploadVars, toolVars, billVars,
                   alertVars, thresholdVars, monitorVars, fileVars>>

\* ------------------------------------------------------ page reload
\* the Refresh button of ProfessionalDashboard: window.location.reload().
\* The browser discards the page and mounts it anew: every component is back
\* at its useState values, the requests, the runs awaiting them and the
\* pending effects are abandoned; the backend keeps its store and the tool
\* calls of the chat route go on
reloadPage ==
    /\ activeTab = "dashboard"
    /\ activeTab' = "dashboard"
    /\ connection' = FALSE
    /\ energyData' = Empty
    /\ dashboardData' = Null
    /\ deviceData' = Empty
    /\ isLoading' = TRUE
    /\ loads' = {}
    /\ loadCount' = 0
    /\ pendingLoadEffect' = Null
    /\ UNCHANGED <<backendVer, backendDevices>>
    /\ selectedPredictionPeriod' = 30
    /\ forecastData' = Null
    /\ isLoadingForecast' = FALSE
    /\ forecastReqs' = {}
    /\ forecastCount' = 0
    /\ pendingPredictionEffect' = Null
    /\ units' = [kind |-> "empty"]
    /\ result' = Null
    /\ isCalculating' = FALSE
    /\ calcPending' = Null
    /\ calcCall' = Null
    /\ uploadStatus' = "null"
    /\ uploads' = {}
    /\ uploadCount' = 0
    /\ lastSuccess' = Null
    /\ billUnits' = [kind |-> "empty"]
    /\ billData' = Null
    /\ billIsLoading' = FALSE
    /\ billError' = ""
    /\ billRequest' = Null
    /\ billCall' = Null
    /\ newSetting' = EmptySetting
    /\ recipientEmail' = ""
    /\ testEmail' = ""
    /\ alertSettings' = {}
    /\ emailRecipients' = {}
    /\ availableDevices' = {}
    /\ connectionTesting' = FALSE
    /\ alertLoading' = FALSE
    /\ alertRequests' = {}
    /\ alertCount' = 0
    /\ alertToast' = Null
    /\ pendingAlertEffect' = Null
    /\ thresholdRow' = Null
    /\ selectedDevice' = NoDevice
    /\ selectedDeviceDetails' = Null
    /\ isLoadingDetails' = FALSE
    /\ detailReqs' = {}
    /\ detailCount' = 0
    /\ pendingDetailsEffect' = Null
    /\ isDragOver' = FALSE
    /\ fileDialogOpen' = FALSE
    /\ fileUploadCall' = Null
    /\ fileUploadCount' = 0
    /\ messages' = <<Greeting>>
    /\ chatInput' = ""
    /\ isTyping' = FALSE
    /\ chatRequest' = Null
    /\ chatCall' = Null
    /\ chatCount' = 0
    /\ UNCHANGED toolVars

\* ------------------------------------------------------ specifications
NextCalc ==
    \/ calculateBill
    \/ calculateBillResume
    \/ setUnits

\* the quantum calculator, for every units value
InitCalcSpec ==
    /\ InitCalc /\ units \in UnitsInputs
    /\ backendDevices = SampleDevices
    /\ InitPage /\ activeTab = "calculator"
    /\ InitPanel /\ InitUpload /\ InitTool
    /\ InitBill /\ InitAlert
    /\ InitThreshold /\ InitMonitor /\ InitFile /\ InitChat

SpecCalc == InitCalcSpec /\ [][NextCalc]_vars

NextPage ==
    \/ checkBackendConnection
    \/ connectionEffect
    \/ reloadPage
    \/ predictionEffect
    \/ forecastOk
    \/ loadAllOk
    \/ loadNotOk
    \/ loadThrew
    \/ backendIngest

\* the page from its mount on the dashboard tab: health checks, the loads
\* they start, the forecast the panel fetches for them, and reloads
InitPageSpec ==
    /\ InitCalc /\ units = [kind |-> "empty"]
    /\ backendDevices = SampleDevices
    /\ InitPage /\ activeTab = "dashboard"
    /\ InitPanel /\ InitUpload /\ InitTool
    /\ InitBill /\ InitAlert
    /\ InitThreshold /\ InitMonitor /\ InitFile /\ InitChat

SpecPage == InitPageSpec /\ [][NextPage]_vars

NextUpload ==
    \/ checkBackendConnection
    \/ connectionEffect
    \/ handleFile
    \/ fileParsed
    \/ postUpload
    \/ uploadReplied
    \/ uploadThrew
    \/ uploadFinished

\* the upload tab: health checks and handleFile runs, up to the loads a
\* successful upload starts
InitUploadSpec ==
    /\ InitCalc /\ units = [kind |-> "empty"]
    /\ backendDevices = SampleDevices
    /\ InitPage /\ activeTab = "upload"
    /\ InitPanel /\ InitUpload /\ InitTool
    /\ InitBill /\ InitAlert
    /\ InitThreshold /\ InitMonitor /\ InitFile /\ InitChat

SpecUpload == InitUploadSpec /\ [][NextUpload]_vars

NextForecast ==
    \/ reloadPage
    \/ loadAllOk
    \/ loadNotOk
    \/ loadThrew
    \/ predictionEffect
    \/ selectPeriod
    \/ forecastOk
    \/ forecastNotOk
    \/ forecastThrew

\* the dashboard tab from the first load on: the forecast panel
InitForecastSpec ==
    /\ InitCalc /\ units = [kind |-> "empty"]
    /\ backendDevices = SampleDevices
    /\ InitPageConnected /\ activeTab = "dashboard"
    /\ InitPanel /\ InitUpload /\ InitTool
    /\ InitBill /\ InitAlert
    /\ InitThreshold /\ InitMonitor /\ InitFile /\ InitChat

SpecForecast == InitForecastSpec /\ [][NextForecast]_vars

NextTool ==
    \/ invokeTool
    \/ tick
    \/ timeoutFires
    \/ toolResponded
    \/ toolFetchFailed
    \/ toolBodyRead

\* the chat tools: calls to the backend under the timer of fetchJSON
InitToolSpec ==
    /\ InitCalc /\ units = [kind |-> "empty"]
    /\ backendDevices = SampleDevices
    /\ InitPage /\ activeTab = "dashboard"
    /\ InitPanel /\ InitUpload /\ InitTool
    /\ InitBill /\ InitAlert
    /\ InitThreshold /\ InitMonitor /\ InitFile /\ InitChat

SpecTool == InitToolSpec /\ [][NextTool]_vars

NextHorizon ==
    \/ invokeTool
    \/ toolResponded
    \/ toolFetchFailed
    \/ toolBodyRead
    \/ selectPeriod
    \/ forecastOk
    \/ forecastNotOk
    \/ forecastThrew

\* everything that asks /predict for a horizon: the tool and the Select
InitHorizonSpec ==
    /\ InitCalc /\ units = [kind |-> "empty"]
    /\ backendDevices = SampleDevices
    /\ InitPage /\ activeTab = "dashboard"
    /\ InitPanel /\ InitUpload /\ InitTool
    /\ InitBill /\ InitAlert
    /\ InitThreshold /\ InitMonitor /\ InitFile /\ InitChat

SpecHorizon == InitHorizonSpec /\ [][NextHorizon]_vars

NextBill ==
    \/ setUnits
    \/ calculateBill
    \/ calculateBillResume
    \/ setBillUnits
    \/ BillCalculator_calculateBill
    \/ billReplied
    \/ billFailed

\* the two bill calculators at their edge inputs
InitBillSpec ==
    /\ InitCalc /\ units = [kind |-> "empty"]
    /\ backendDevices = SampleDevices
    /\ InitPageConnected /\ activeTab = "calculator"
    /\ InitPanel /\ InitUpload /\ InitTool
    /\ InitBill /\ InitAlert
    /\ InitThreshold /\ InitMonitor /\ InitFile /\ InitChat

SpecBill == InitBillSpec /\ [][NextBill]_vars

NextAlert ==
    \/ editSetting
    \/ setRecipientEmail
    \/ setTestEmail
    \/ handleAddAlertSetting
    \/ alertCreated
    \/ alertFailed
    \/ handleDeleteAlertSetting
    \/ alertSettingDeleted
    \/ handleAddEmailRecipient
    \/ emailRecipientAdded
    \/ emailRecipientFailed
    \/ handleDeleteEmailRecipient
    \/ emailRecipientDeleted
    \/ handleSendTestAlert
    \/ testAlertSent
    \/ handleTestConnection
    \/ connectionTested
    \/ alertSettingsLoaded
    \/ emailRecipientsLoaded

\* the alerts tab of a connected page: the forms, the buttons and the
\* requests they send
InitAlertSpec ==
    /\ InitCalc /\ units = [kind |-> "empty"]
    /\ backendDevices = SampleDevices
    /\ InitPageConnected /\ activeTab = "alerts"
    /\ InitPanel /\ InitUpload /\ InitTool
    /\ InitBill /\ InitAlertLoaded
    /\ InitThreshold /\ InitMonitor /\ InitFile /\ InitChat

SpecAlert == InitAlertSpec /\ [][NextAlert]_vars

NextDevices ==
    \/ loadAllOk
    \/ setActiveTab
    \/ predictionEffect
    \/ detailsEffect
    \/ alertEffect
    \/ alertSettingsLoaded
    \/ emailRecipientsLoaded
    \/ alertHistoryLoaded
    \/ availableDevicesLoaded

\* the tabs of a connected page and the views of the device map its first
\* load stores, for every map the backend may hold
InitDevicesSpec ==
    /\ InitCalc /\ units = [kind |-> "empty"]
    /\ backendDevices \in DeviceMaps
    /\ InitPageConnected /\ activeTab = "dashboard"
    /\ InitPanel /\ InitUpload /\ InitTool
    /\ InitBill /\ InitAlert
    /\ InitThreshold /\ InitMonitor /\ InitFile /\ InitChat

SpecDevices == InitDevicesSpec /\ [][NextDevices]_vars

NextThreshold ==
    \/ renderThresholdRow

\* the threshold rows of the device cards, for every reading and setting
InitThresholdSpec ==
    /\ InitCalc /\ units = [kind |-> "empty"]
    /\ backendDevices = SampleDevices
    /\ InitPageConnected /\ activeTab = "alerts"
    /\ InitPanel /\ InitUpload /\ InitTool
    /\ InitBill /\ InitAlertLoaded
    /\ InitThreshold /\ InitMonitor /\ InitFile /\ InitChat

SpecThreshold == InitThresholdSpec /\ [][NextThreshold]_vars

NextMonitor ==
    \/ selectDevice
    \/ detailsEffect
    \/ detailsOk
    \/ detailsFailed

\* the devices tab: device cards and the details they fetch
InitMonitorSpec ==
    /\ InitCalc /\ units = [kind |-> "empty"]
    /\ backendDevices = MonitoredDevices
    /\ InitPageLoaded /\ activeTab = "devices"
    /\ InitPanel /\ InitUpload /\ InitTool
    /\ InitBill /\ InitAlert
    /\ InitThreshold /\ InitMonitor /\ InitFile /\ InitChat

SpecMonitor == InitMonitorSpec /\ [][NextMonitor]_vars

NextFile ==
    \/ checkBackendConnection
    \/ connectionEffect
    \/ FileUpload_handleDragOver
    \/ FileUpload_handleDragLeave
    \/ FileUpload_handleDrop
    \/ dropZoneClick
    \/ FileUpload_handleFileSelect
    \/ fileDialogCancelled

\* the FileUpload component under health checks
InitFileSpec ==
    /\ InitCalc /\ units = [kind |-> "empty"]
    /\ backendDevices = SampleDevices
    /\ InitPage /\ activeTab = "upload"
    /\ InitPanel /\ InitUpload /\ InitTool
    /\ InitBill /\ InitAlert
    /\ InitThreshold /\ InitMonitor /\ InitFile /\ InitChat

SpecFile == InitFileSpec /\ [][NextFile]_vars

NextChat ==
    \/ setInput
    \/ sendMessage
    \/ chatReplied
    \/ chatFailed

\* the chat of AIAssistant
InitChatSpec ==
    /\ InitCalc /\ units = [kind |-> "empty"]
    /\ backendDevices = SampleDevices
    /\ InitPageConnected /\ activeTab = "dashboard"
    /\ InitPanel /\ InitUpload /\ InitTool
    /\ InitBill /\ InitAlert
    /\ InitThreshold /\ InitMonitor /\ InitFile /\ InitChat

SpecChat == InitChatSpec /\ [][NextChat]_vars

\* the chat when every request it sends settles
SpecChatFair == SpecChat /\ WF_vars(chatReplied \/ chatFailed)

NextReload ==
    \/ handleFile
    \/ fileParsed
    \/ postUpload
    \/ uploadReplied
    \/ uploadThrew
    \/ uploadFinished
    \/ loadAllOk
    \/ loadThrew

\* the upload tab from the first load on: uploads and the loads of the page,
\* each load ending with four OK responses or in the catch
InitReloadSpec ==
    /\ InitCalc /\ units = [kind |-> "empty"]
    /\ backendDevices = SampleDevices
    /\ InitPageConnected /\ activeTab = "upload"
    /\ InitPanel /\ InitUpload /\ InitTool
    /\ InitBill /\ InitAlert
    /\ InitThreshold /\ InitMonitor /\ InitFile /\ InitChat

SpecReload == InitReloadSpec /\ [][NextReload]_vars

\* the upload tab when file reads, timers and the POST all settle
SpecUploadFair ==
    /\ SpecUpload
    /\ WF_vars(fileParsed)
    /\ WF_vars(postUpload)
    /\ WF_vars(uploadReplied \/ uploadThrew)
    /\ WF_vars(uploadFinished)

\* ------------------------------------------------------------ helpers
Min(a, b) == IF a <= b THEN a ELSE b
Max(a, b) == IF a >= b THEN a ELSE b

RECURSIVE SumUnits(_)
SumUnits(rows) ==
    IF rows = << >> THEN 0 ELSE Head(rows).units + SumUnits(Tail(rows))

RECURSIVE SumFullAmount(_)
SumFullAmount(rows) ==
    IF rows = << >> THEN 0
    ELSE Head(rows).units * Head(rows).rate + SumFullAmount(Tail(rows))

\* c paise is the 2-decimal rounding of n / UnitScale paise
IsRounded2(c, n) ==
    /\ 2 * UnitScale * c - UnitScale <= 2 * n
    /\ 2 * n < 2 * UnitScale * c + UnitScale

\* units of the bill that its breakup bills in slab i
unitsBilledIn(bill, i) ==
    LET idx == {k \in 1..Len(bill.breakup) : bill.breakup[k].from = slabs[i].from}
    IN  IF idx = {} THEN 0 ELSE bill.breakup[CHOOSE k \in idx : TRUE].units

\* --------------------------------------------------------------- C1
\* the cumulative slab upper bounds the tariff display states
DisplayedUpper == <<0, 100, 200, 500, 1000>>

\* units of u falling between the displayed bounds of slab i
DisplayedShare(u, i) ==
    LET lo == DisplayedUpper[i] * UnitScale
        hi == IF i = Len(slabs) THEN u ELSE Min(u, DisplayedUpper[i + 1] * UnitScale)
    IN  Max(0, hi - lo)

\* C1: every bill charges in slab i the units max(0, min(u, to_i) - to_(i-1))
\* for the bounds 100/200/500/1000, and the bill of 150 units is 112.50 with
\* the rows {0,100,100,0,0.00} and {101,200,50,2.25,112.50}
C1_ProgressiveTariff ==
    result.kind = "bill" =>
        /\ \A i \in 1..Len(slabs) :
              unitsBilledIn(result, i) = DisplayedShare(result.units, i)
        /\ result.units = 150 * UnitScale =>
              /\ result.total_amount = 11250
              /\ result.breakup =
                    << [from |-> 0, to |-> 100, units |-> 100 * UnitScale,
                        rate |-> 0, amount |-> 0],
                       [from |-> 101, to |-> 200, units |-> 50 * UnitScale,
                        rate |-> 225, amount |-> 11250] >>

\* --------------------------------------------------------------- C2
\* C2: in every bill the units of the rows add up to the units billed, each
\* row amount is units x rate rounded to 2 decimals, and the total is the
\* full-precision sum of the rows rounded once
C2_ExactPartition ==
    result.kind = "bill" =>
        /\ SumUnits(result.breakup) = result.units
        /\ \A k \in 1..Len(result.breakup) :
              IsRounded2(result.breakup[k].amount,
                         result.breakup[k].units * result.breakup[k].rate)
        /\ IsRounded2(result.total_amount, SumFullAmount(result.breakup))

\* a bill over three slabs whose last row needs rounding
C2_Witness ==
    /\ result.kind = "bill"
    /\ Len(result.breakup) >= 3
    /\ (result.breakup[Len(result.breakup)].units
          * result.breakup[Len(result.breakup)].rate) % UnitScale # 0
    /\ result.total_amount > 0

\* ------------------------------------------------- what the panel renders
\* currentForecast = forecastData || dashboardData?.prediction
currentForecast ==
    IF forecastData # Null THEN forecastData
    ELSE IF dashboardData = Null THEN Null
    ELSE dashboardData.prediction

\* the forecast values are rendered (not "Loading..." and not the empty state)
ForecastShown == currentForecast # Null /\ ~isLoadingForecast

\* currentForecast.daily_avg_kwh ? : the field is there and is a string of
\* toFixed(2) (not empty, so truthy whatever its digits) or a number that is
\* not 0
hasDailyAvgKwh(f) ==
    /\ f.kind = "forecast" /\ f.hasDaily
    /\ (f.dailyAsText \/ f.daily_avg_kwh # 0)

\* currentForecast.daily_avg_cost ? : tested on its own, in the same way
hasDailyAvgCost(f) ==
    /\ f.kind = "forecast" /\ f.hasDaily
    /\ (f.dailyAsText \/ f.daily_avg_cost # 0)

\* the pairs of a forecast value (in hundredths) and a period whose quotient
\* lies halfway between two hundredths and whose double, the result of the
\* division, lies below the quotient: of the values the forecasts of BaseKwh
\* take, over the periods of predictionOptions
doubleBelowTie == {<<23550, 60>>, <<38025, 90>>, <<73350, 60>>}

\* (value / Number.parseInt(period)).toFixed(2): the hundredth nearest to
\* the double that the division gives
toFixed2OfQuotient(value, period) ==
    IF <<value, period>> \in doubleBelowTie
    THEN toFixed2(value, period) - 1
    ELSE toFixed2(value, period)

\* the "Daily Average" rendered, in 1/100 kWh
shownDailyKwh ==
    IF hasDailyAvgKwh(currentForecast) THEN currentForecast.daily_avg_kwh
    ELSE toFixed2OfQuotient(currentForecast.predicted_kwh, selectedPredictionPeriod)

\* the "Daily Cost" rendered, in paise
shownDailyCost ==
    IF hasDailyAvgCost(currentForecast) THEN currentForecast.daily_avg_cost
    ELSE toFixed2OfQuotient(currentForecast.total_amount, selectedPredictionPeriod)

\* the period a forecast was made for: prediction_period_days, or the 30
\* days of the prediction a load fetched without a days parameter
horizonOf(f) == IF f.kind = "forecast" THEN f.days ELSE DefaultDays

Abs(x) == IF x >= 0 THEN x ELSE 0 - x

\* daily x days equals total up to the rounding of the two 2-decimal values
\* (half a hundredth on total, half a hundredth per day on daily)
WithinRounding(daily, days, total) == 2 * Abs(daily * days - total) <= days + 1

\* --------------------------------------------------------------- C3
\* C3: every forecast held carries daily averages that, times its own
\* period, give predicted_kwh and bill.total_amount within rounding, and so
\* do the daily values rendered with the forecast shown
C3_ForecastRoundTrip ==
    /\ (forecastData # Null /\ forecastData.hasDaily) =>
          /\ WithinRounding(forecastData.daily_avg_kwh, forecastData.days,
                            forecastData.predicted_kwh)
          /\ WithinRounding(forecastData.daily_avg_cost, forecastData.days,
                            forecastData.total_amount)
    /\ ForecastShown =>
          /\ WithinRounding(shownDailyKwh, horizonOf(currentForecast),
                            currentForecast.predicted_kwh)
          /\ WithinRounding(shownDailyCost, horizonOf(currentForecast),
                            currentForecast.total_amount)

\* --------------------------------------------------------------- C4
\* C4: the bill of every forecast held or shown is the tariff engine's bill
\* of that forecast's predicted_kwh
C4_BillIsTariffOfForecast ==
    /\ forecastData # Null =>
          forecastData.total_amount =
              computeBill(forecastData.predicted_kwh, KwhScale).total_amount
    /\ currentForecast # Null =>
          currentForecast.total_amount =
              computeBill(currentForecast.predicted_kwh, KwhScale).total_amount

\* --------------------------------------------------------------- C5
\* the tags of the parts of the page's data that are present
ShownParts ==
    (IF dashboardData = Null THEN {}
     ELSE (IF dashboardData.peak = Null THEN {} ELSE {dashboardData.peak})
          \cup (IF dashboardData.prediction = Null THEN {}
                ELSE {[load |-> dashboardData.prediction.load,
                       ver |-> dashboardData.prediction.ver]})
          \cup (IF dashboardData.suggestions = Empty THEN {}
                ELSE {dashboardData.suggestions}))
    \cup (IF deviceData = Empty THEN {}
          ELSE {[load |-> deviceData.load, ver |-> deviceData.ver]})

\* C5: peak, prediction, suggestions and the device map shown all come from
\* one load of one generation of the backend's store
C5_NoTornSnapshot ==
    \A a, b \in ShownParts : a.load = b.load /\ a.ver = b.ver

\* --------------------------------------------------------------- C6
\* C6: a load in which a response is not OK or something throws leaves
\* dashboardData and deviceData as they were
C6_FailedLoadKeepsSnapshot ==
    [][(loadNotOk \/ loadThrew) => UNCHANGED <<dashboardData, deviceData>>]_vars

\* --------------------------------------------------------------- C7
\* handleFile runs between the start of their POST and their end
UploadsInFlight == {u \in uploads : u.pc \in {"posting", "processing"}}

\* C7: at most one upload is in flight at any time
C7_OneUploadInFlight == Cardinality(UploadsInFlight) <= 1

\* --------------------------------------------------------------- C8
\* C8: a tool call that has ended in a timeout, a network error, a status
\* that is not OK or an unreadable body has returned an {error} value, no
\* call ends by throwing, and no call is pending once its timer has fired
\* or 10 s have passed
C8_ToolsDegrade ==
    toolCall # Null =>
        /\ toolCall.pc = "done" => toolCall.outcome.kind \in {"data", "error"}
        /\ toolCall.cause \in {"timeout", "network", "http", "json"} =>
              /\ toolCall.pc = "done"
              /\ toolCall.outcome.kind = "error"
        /\ toolCall.timer = "fired" => toolCall.pc = "done"
        /\ toolCall.pc \in {"fetching", "reading"} =>
              toolCall.elapsed <= TimeoutSeconds

\* the weather lookup has been cut off by its timer after 10 s and has
\* returned an error value
C8_Witness ==
    /\ toolCall # Null
    /\ toolCall.tool = "getWeatherData"
    /\ toolCall.pc = "done"
    /\ toolCall.cause = "timeout"
    /\ toolCall.elapsed = TimeoutSeconds
    /\ toolCall.outcome.kind = "error"

\* --------------------------------------------------------------- C9
\* C9: every horizon asked of /predict by the Select or by the tool is a
\* whole number of days in 1..365; the tool's schema turns down a days value
\* that is not, sending nothing, and a call without days asks for 30
C9_HorizonInRange ==
    /\ \A r \in forecastReqs : r.period \in 1..365
    /\ selectedPredictionPeriod \in 1..365
    /\ (toolCall # Null /\ toolCall.tool = "getPredictedBillAndTariff") =>
          /\ toolCall.pc # "rejected" => toolCall.sent \in 1..365
          /\ (toolCall.input.kind = "number"
                /\ (toolCall.input.twice % 2 # 0
                      \/ toolCall.input.twice < 2 \/ toolCall.input.twice > 730)) =>
                toolCall.pc = "rejected" /\ toolCall.sent = 0
          /\ (toolCall.input.kind = "number" /\ toolCall.pc # "rejected") =>
                2 * toolCall.sent = toolCall.input.twice
          /\ toolCall.input.kind = "absent" =>
                toolCall.pc # "rejected" /\ toolCall.sent = 30

\* the tool has turned down 366 days while the Select has a request for
\* 365 days under way
C9_Witness ==
    /\ toolCall # Null
    /\ toolCall.tool = "getPredictedBillAndTariff"
    /\ toolCall.input.kind = "number" /\ toolCall.input.twice = 732
    /\ toolCall.pc = "rejected"
    /\ \E r \in forecastReqs : r.period = 365

\* -------------------------------------------------------------- C10
\* C10: readings that are malformed are neither posted to /api/upload nor
\* handed to onDataUpload, and their upload ends in the error state
C10_MalformedRejected ==
    /\ \A u \in uploads :
          u.content = "malformedReadings" => u.pc \in {"reading", "validating"}
    /\ energyData # Empty => energyData.content # "malformedReadings"

\* -------------------------------------------------------------- C11
\* the handleFile run u ends in this step
UploadEnds(u) == u \in uploads /\ \A v \in uploads' : v.id # u.id

\* the backend answered u's POST with an OK response of status "success"
AnsweredSuccess(u) == u.pc = "processing" /\ u.reply.ok /\ u.reply.success

\* C11: energyData is set and loadDashboardData is started, other than by the
\* page's connection effect, only in the step that ends an upload answered OK with status "success",
\* every such upload sets energyData to its data and starts the loads of
\* onDataUpload and onDataLoaded, and an upload that ends in any other way
\* leaves energyData and the loads alone and shows the error state
C11_RecomputeIffSuccess ==
    [][ /\ (energyData' # energyData
            \/ (loadCount' # loadCount /\ pendingLoadEffect' = pendingLoadEffect))
            => \E u \in uploads : UploadEnds(u) /\ AnsweredSuccess(u)
        /\ \A u \in uploads : (UploadEnds(u) /\ AnsweredSuccess(u)) =>
              /\ energyData' = [kind |-> "readings", upload |-> u.id,
                                content |-> u.content]
              /\ loadCount' = loadCount + 2
              /\ uploadStatus' = "success"
        /\ \A u \in uploads : (UploadEnds(u) /\ ~AnsweredSuccess(u)) =>
              /\ UNCHANGED <<energyData, loads, loadCount>>
              /\ uploadStatus' = "error"
        /\ (uploadStatus' = "error" /\ uploadStatus # "error") =>
              UNCHANGED <<energyData, loads, loadCount>>
      ]_vars

\* a successful upload has handed its readings to the page and both of its
\* loads are under way, after another upload ended in an error
C11_Witness ==
    /\ uploadStatus = "success"
    /\ energyData # Empty /\ energyData.upload = 2
    /\ Cardinality(loads) >= 2
    /\ uploadCount = 2 /\ uploads = {}

\* -------------------------------------------------------------- C12
\* the bill of no units
ZeroBill == [kind |-> "bill", units |-> 0, total_amount |-> 0, breakup |-> << >>]

\* C12: a calculateBill call for 0 units ends with the bill of 0 units shown
\* (empty breakup, total 0), in QuantumCalculator and in BillCalculator
C12_ZeroUnitsBill ==
    /\ (calcCall # Null /\ calcCall.unitsValue = 0 /\ calcCall.outcome # "pending") =>
          /\ calcCall.outcome = "result"
          /\ result = ZeroBill
    /\ (billCall # Null /\ billCall.unitsValue = [kind |-> "num", q |-> 0]
          /\ billCall.outcome \notin {"pending", "failed"}) =>
          /\ billCall.outcome = "result"
          /\ billData = backendBill(0)

\* -------------------------------------------------------------- C13
\* C13: a calculateBill call for negative or NaN units ends in an error
\* shown to the user, sends no request and computes no bill, in
\* QuantumCalculator and in BillCalculator
C13_InvalidUnitsError ==
    /\ (calcCall # Null /\ calcCall.unitsValue < 0) =>
          /\ calcCall.outcome = "error"
          /\ calcPending = Null
    /\ (billCall # Null
          /\ (billCall.unitsValue.kind = "empty" \/ billCall.unitsValue.q < 0)) =>
          /\ billCall.outcome = "error"
          /\ billError # ""
          /\ billRequest = Null

\* -------------------------------------------------------------- C14
\* units values at and around the slab bounds, in 1/UnitScale
Landmarks ==
    {1} \cup {b * UnitScale + d : b \in {100, 101, 200, 201, 500, 501, 1000, 1001},
                                 d \in {-1, 0, 1}}

\* C14: the total of the bill shown is at least the total calculateBill
\* gives for the next smaller units value, for one unit less and for every
\* smaller value at a slab bound (steps of 1/UnitScale chain to every pair)
C14_TariffMonotone ==
    result.kind = "bill" =>
        \A u1 \in Landmarks \cup {result.units - 1, result.units - UnitScale} :
            (0 < u1 /\ u1 <= result.units) =>
                computeBill(u1, UnitScale).total_amount <= result.total_amount

\* a bill in the fourth slab, above a smaller bill that is not free
C14_Witness ==
    /\ result.kind = "bill"
    /\ result.units = 700 * UnitScale
    /\ computeBill(201 * UnitScale, UnitScale).total_amount > 0
    /\ result.total_amount > computeBill(201 * UnitScale, UnitScale).total_amount

\* -------------------------------------------------------------- C15
\* C15: when a forecast request fails and its call saw a base prediction, the
\* forecast stored is tagged "estimated", is for the period of the call, and
\* its predicted_kwh is base / 30 x period to the hundredth; a call that saw
\* no base prediction stores nothing
C15_DegradedForecast ==
    [][(forecastNotOk \/ forecastThrew) =>
          \E r \in forecastReqs :
             /\ r \notin forecastReqs'
             /\ r.baseData = Null => forecastData' = forecastData
             /\ r.baseData # Null =>
                   /\ forecastData'.confidence = "estimated"
                   /\ forecastData'.days = r.period
                   /\ 2 * Abs(DefaultDays * forecastData'.predicted_kwh
                                - r.baseData.predicted_kwh * r.period) <= DefaultDays
      ]_vars

\* an estimated year of 1910.17 kWh from the 30-day base of 157 kWh is held
C15_Witness ==
    /\ forecastData # Null
    /\ forecastData.confidence = "estimated"
    /\ forecastData.days = 365
    /\ forecastData.predicted_kwh = 191017
    /\ selectedPredictionPeriod = 365

\* -------------------------------------------------------------- C16
\* C16: every alert setting being POSTed has a threshold_type of the three,
\* device_name null exactly when its form was global and a device of the
\* list otherwise, and its form had a setting_name and a threshold_value
C16_AlertSettingModel ==
    \A r \in alertRequests :
        r.kind = "addAlertSetting" =>
            /\ r.body.threshold_type \in ThresholdTypes
            /\ r.body.device_name = Null <=> ~r.form.is_device_specific
            /\ r.form.is_device_specific =>
                  /\ r.body.device_name # Null
                  /\ r.body.device_name.name \in AvailableDevices
            /\ r.form.setting_name # ""
            /\ r.body.setting_name \in AlertTypes
            /\ r.form.threshold_value.kind = "num"

\* a device-specific setting for "AC" is being POSTed, after a click on the
\* form without its required fields was turned down
C16_Witness ==
    /\ \E r \in alertRequests :
          /\ r.kind = "addAlertSetting"
          /\ r.form.is_device_specific
          /\ r.body.device_name = [kind |-> "name", name |-> "AC"]
    /\ alertToast = toast("Error", "Please fill in all required fields")

\* -------------------------------------------------------------- C17
\* the device map the views render: {} until a load stored one
deviceMap == IF deviceData = Empty THEN [d \in {} |-> Null] ELSE deviceData.map

\* C17: the dashboard and Analytics count the same devices as active, and
\* every device's Active badges agree with currentPower > 0
C17_OneActivePredicate ==
    /\ dashboardActiveDevices(deviceMap) = analyticsActiveDevices(deviceMap)
    /\ \A d \in DOMAIN deviceMap :
          /\ overviewBadgeActive(deviceMap, d) <=> deviceMap[d].currentPower > 0
          /\ analyticsBadgeActive(deviceMap, d) <=> deviceMap[d].currentPower > 0

\* -------------------------------------------------------------- C18
\* C18: proper and improper count every device once, properRate is within
\* 0..100 and 0 without devices, and every device is in exactly one of the
\* two lists, the one its badge names
C18_ProperOrImproper ==
    /\ properCount(deviceMap) + improperCount(deviceMap) = totalDevices(deviceMap)
    /\ properCount(deviceMap) >= 0 /\ improperCount(deviceMap) >= 0
    /\ properRate(deviceMap).num >= 0
    /\ properRate(deviceMap).num <= 100 * properRate(deviceMap).den
    /\ totalDevices(deviceMap) = 0 => properRate(deviceMap).num = 0
    /\ \A d \in DOMAIN deviceMap :
          /\ (d \in properList(deviceMap)) # (d \in needsAttentionList(deviceMap))
          /\ d \in properList(deviceMap) <=> statusBadge(deviceMap, d) = "proper"
          /\ d \in needsAttentionList(deviceMap) <=> statusBadge(deviceMap, d) = "improper"

\* -------------------------------------------------------------- C19
\* C19: the slab table starts at 0, each slab starts one above the end of
\* the slab before it and ends at or above its start, and the last slab and
\* no other is unbounded
C19_SlabTableWellFormed ==
    /\ Len(slabs) >= 1
    /\ slabs[1].from = 0
    /\ \A i \in 1..Len(slabs) :
          /\ (slabs[i].to = Infinity) <=> (i = Len(slabs))
          /\ slabs[i].to # Infinity => slabs[i].from <= slabs[i].to
          /\ i > 1 => /\ slabs[i].from = slabs[i - 1].to + 1
                      /\ slabs[i].from > slabs[i - 1].from
    /\ result.kind = "bill" =>
          \A k \in 1..Len(result.breakup) :
              /\ result.breakup[k].from = slabs[k].from
              /\ result.breakup[k].to =
                    (IF slabs[k].to = Infinity THEN "Above" ELSE slabs[k].to)

\* a bill that runs through the whole table, the unbounded slab included
C19_Witness ==
    /\ result.kind = "bill"
    /\ Len(result.breakup) = Len(slabs)
    /\ result.breakup[Len(slabs)].to = "Above"

\* -------------------------------------------------------------- C20
\* C20: every row of a bill has units above 0, the rows are in slab order,
\* and slab i has a row exactly when units fall between its displayed bounds
C20_RowPerSlabTouched ==
    result.kind = "bill" =>
        /\ \A k \in 1..Len(result.breakup) : result.breakup[k].units > 0
        /\ \A k \in 1..(Len(result.breakup) - 1) :
              result.breakup[k].from < result.breakup[k + 1].from
        /\ \A i \in 1..Len(slabs) :
              (\E k \in 1..Len(result.breakup) : result.breakup[k].from = slabs[i].from)
                  <=> DisplayedShare(result.units, i) > 0

\* -------------------------------------------------------------- C21
\* the alert condition of a threshold row, on its readings in 1/ReadingScale
AlertConditionHolds(row) ==
    \/ /\ row.threshold_type = "greater_than"
       /\ row.currentValue > row.threshold_value
    \/ /\ row.threshold_type = "less_than"
       /\ row.currentValue < row.threshold_value
    \/ /\ row.threshold_type = "equal_to"
       /\ 100 * Abs(row.currentValue - row.threshold_value) < ReadingScale

\* C21: the colour of a threshold row is red exactly when the alert condition
\* of its threshold type holds for the current value (greater_than: above,
\* less_than: below, equal_to: closer than 0.01), and yellow or green for
\* every other row, rows of an unknown threshold type included
C21_ColourMatchesType ==
    thresholdRow # Null =>
        /\ thresholdRow.color = "bg-red-500" <=> AlertConditionHolds(thresholdRow)
        /\ ~AlertConditionHolds(thresholdRow) =>
              thresholdRow.color \in {"bg-yellow-500", "bg-green-500"}
        /\ thresholdRow.threshold_type \notin ThresholdTypes =>
              thresholdRow.color # "bg-red-500"

\* an equal_to row whose value is near the threshold without being it is red
C21_Witness ==
    /\ thresholdRow # Null
    /\ thresholdRow.threshold_type = "equal_to"
    /\ thresholdRow.currentValue = 258 /\ thresholdRow.threshold_value = 256
    /\ thresholdRow.color = "bg-red-500"

\* -------------------------------------------------------------- C30
\* C30: the progress value of a threshold row with a current value >= 0 is
\* a number from 0 to 100, for every threshold_value and threshold type
C30_ProgressIsPercentage ==
    (thresholdRow # Null /\ thresholdRow.currentValue >= 0) =>
        /\ thresholdRow.progressValue.kind = "finite"
        /\ thresholdRow.progressValue.num >= 0
        /\ thresholdRow.progressValue.num <= 100 * thresholdRow.progressValue.den

\* -------------------------------------------------------------- C22
\* C22: once no effect is pending and every forecast request has settled,
\* the forecastData held, if
\* any, is the forecast of the horizon that is selected
C22_ForecastOfSelectedHorizon ==
    (forecastReqs = {} /\ pendingPredictionEffect = Null
       /\ forecastData # Null) =>
        forecastData.days = selectedPredictionPeriod

\* -------------------------------------------------------------- C27
\* C27: isLoadingForecast is true exactly while a forecast request is in
\* flight
C27_LoadingFlagTracksRequests ==
    isLoadingForecast <=> forecastReqs # {}

\* -------------------------------------------------------------- C23
\* a part of the page's data was fetched by a load started after the latest
\* successful upload
PostUpload(part) == part.load > lastSuccess.loadsBefore

\* C23: after an upload has succeeded and every load has settled, each part
\* of dashboardData and deviceData shown was fetched by a load started after
\* that upload succeeded, and no step replaces data of a load started after
\* the upload by data of a load started before it
C23_ShownDataIsPostUpload ==
    /\ []((lastSuccess # Null /\ loads = {}) =>
            \A part \in ShownParts : PostUpload(part))
    /\ [][(lastSuccess # Null /\ lastSuccess' = lastSuccess
             /\ ShownParts # {} /\ \A part \in ShownParts : PostUpload(part))
          => \A part \in ShownParts' : PostUpload(part)']_vars

\* -------------------------------------------------------------- C24
\* C24: once the effect on the selection has run and every detail request
\* has settled, selectedDeviceDetails is null
\* or the details of the device that is selected
C24_DetailsOfSelectedDevice ==
    (detailReqs = {} /\ pendingDetailsEffect = Null) =>
        \/ selectedDeviceDetails = Null
        \/ selectedDeviceDetails.device_name = selectedDevice

\* -------------------------------------------------------------- C25
\* C25: onFileUpload is called only with isConnected true and with a file
\* whose name ends in .json
C25_UploadOnlyWhenConnected ==
    fileUploadCall # Null =>
        /\ fileUploadCall.isConnected
        /\ fileUploadCall.file.json

\* -------------------------------------------------------------- C26
\* C26: an error of the bill calculator is never shown together with a
\* bill, and a bill shown is the bill of the units value submitted last
C26_ResultOrError ==
    /\ billError # "" => billData = Null
    /\ (billData # Null /\ billCall.unitsValue.kind = "num") =>
          billData = backendBill(billCall.unitsValue.q)
    /\ billData # Null => billCall.unitsValue.kind = "num"

\* -------------------------------------------------------------- C28
\* the handleFile run with this id is under way
Running(id) == \E u \in uploads : u.id = id

\* C28: a handleFile call that starts no run (wrong extension, disconnected)
\* leaves the error status; a run that ends, on whichever path, leaves the
\* success or the error status; the loading status is shown only while a run
\* is under way; and every run ends when its file read, its timers and its
\* POST settle
C28_UploadEndsInFinalStatus ==
    /\ [][(handleFile /\ uploads' = uploads) => uploadStatus' = "error"]_vars
    /\ [][\A u \in uploads :
             UploadEnds(u) => uploadStatus' \in {"success", "error"}]_vars
    /\ [](uploadStatus = "loading" => uploads # {})
    /\ \A id \in 1..MaxUploads : Running(id) ~> ~Running(id)
    /\ (uploadStatus = "loading") ~> (uploadStatus \in {"success", "error"})

\* two runs have ended: one in success, a later one in the error status
C28_Witness ==
    /\ uploads = {} /\ uploadCount >= 2
    /\ energyData # Empty /\ energyData.upload = 1
    /\ uploadStatus = "error"

\* -------------------------------------------------------------- C29
\* the message list alternates assistant, user, assistant, ...
Alternates ==
    \A i \in 1..Len(messages) :
        messages[i].type = IF i % 2 = 1 THEN "ai" ELSE "user"

\* C29: the message list starts with the greeting and alternates; isTyping
\* is true exactly from an accepted send until the assistant's message is
\* appended; a request is sent only while isTyping is false and the input is
\* not blank, and appends the input as one user message; a blank input sends
\* nothing; every step that changes the list appends one message; and every
\* turn ends when its request settles
C29_TurnsSerialized ==
    /\ [](messages[1] = Greeting /\ Alternates)
    /\ [](isTyping <=> chatRequest # Null)
    /\ [](isTyping <=> messages[Len(messages)].type = "user")
    /\ [][chatCount' # chatCount =>
             /\ ~isTyping /\ ~isBlank(chatInput)
             /\ chatCount' = chatCount + 1
             /\ messages' = Append(messages, [type |-> "user", content |-> chatInput])
             /\ isTyping']_vars
    /\ [][(sendMessage /\ isBlank(chatInput)) =>
             UNCHANGED <<messages, isTyping, chatRequest, chatCount>>]_vars
    /\ [][messages' # messages =>
             /\ Len(messages') = Len(messages) + 1
             /\ SubSeq(messages', 1, Len(messages)) = messages]_vars
    /\ isTyping ~> ~isTyping

\* two turns are over: the first ended with the error message, the second
\* with a reply
C29_Witness ==
    /\ Len(messages) = 5 /\ ~isTyping
    /\ messages[2].type = "user" /\ messages[3] = [type |-> "ai", content |-> "error"]
    /\ messages[4].type = "user" /\ messages[5] = [type |-> "ai", content |-> "reply"]
====
